---- MODULE Spec2Model ----
(***************************************************************************)
(* Model of the Web Launcher client state store (src/unnamed/part_000,     *)
(* the Firestore-backed zustand store) together with the callers that      *)
(* drive its session state (src/src/components/UserAuth.tsx).              *)
(*                                                                         *)
(* The hosted document database is the environment.  It is modelled as a   *)
(* per-user collection of documents; a write either succeeds (and is       *)
(* applied to the collection) or fails; a change subscription remembers    *)
(* the view it delivered last and delivers, as one batch, the difference   *)
(* between the collection and that view.                                   *)
(***************************************************************************)
EXTENDS Integers, Sequences, FiniteSets, TLC

----------------------------------------------------------------------------
(* Bounds of the model.                                                    *)

MaxTime == 2
MaxVisits == 2
MaxPending == 2
MaxLoads == 2
MaxBatch == 2
MaxLocal == 3
MaxCalls == 4

Users == {"u1", "u2"}
Ids == {"w1", "w2"}
GroupIds == {"g1", "g2"}
NULL == "null"

----------------------------------------------------------------------------
(* Timestamps.  The store keeps native Date values, the persistence layer  *)
(* ISO-8601 strings; an optional timestamp may be undefined.               *)

Undefined == [k |-> "undefined", ms |-> 0]
DateOf(ms) == [k |-> "Date", ms |-> ms]

\* An ISO-8601 string, YYYY-MM-DDTHH:mm:ss.sssZ: the date and time of day to
\* the second (s, counted in seconds) and three digits of milliseconds (f).
MsPerSecond == 1000
IsoOf(ms) == [k |-> "iso", s |-> ms \div MsPerSecond, f |-> ms % MsPerSecond]

\* Date.parse of an ISO-8601 string: the time value it denotes.
DateParse(s) == s.s * MsPerSecond + s.f

\* (Variant: the string is written without its milliseconds.)
toISOString_WholeSeconds(d) ==
    IF d.k = "Date" THEN IsoOf((d.ms \div MsPerSecond) * MsPerSecond) ELSE Undefined

\* Date.prototype.toISOString (optional chaining keeps undefined).
toISOString(d) == IF d.k = "Date" THEN IsoOf(d.ms) ELSE Undefined

\* `x ? new Date(x) : undefined` for an ISO string or undefined.
newDateOpt(s) == IF s.k = "undefined" THEN Undefined ELSE DateOf(DateParse(s))

\* new Date(x) for an ISO string.
newDate(s) == DateOf(DateParse(s))

fromFirestoreWebsite(data) ==
    [data EXCEPT !.lastVisit = newDateOpt(data.lastVisit),
                 !.createdAt = newDate(data.createdAt),
                 !.deletedAt = newDateOpt(data.deletedAt)]

toFirestoreWebsite(website) ==
    [website EXCEPT !.lastVisit = toISOString(website.lastVisit),
                    !.createdAt = toISOString(website.createdAt),
                    !.deletedAt = toISOString(website.deletedAt)]

toFirestoreGroup(group) ==
    [group EXCEPT !.createdAt = toISOString(group.createdAt),
                  !.deletedAt = toISOString(group.deletedAt)]

----------------------------------------------------------------------------
(* Sequence helpers standing for the array primitives the store uses.      *)

Range(s) == {s[i] : i \in 1..Len(s)}

\* Array.prototype.findIndex: the first index satisfying the test, 0 for -1.
FindIndex(s, Test(_)) ==
    IF \E i \in 1..Len(s) : Test(s[i])
    THEN CHOOSE i \in 1..Len(s) : Test(s[i]) /\ \A j \in 1..(i - 1) : ~Test(s[j])
    ELSE 0

\* Array.prototype.splice(index, 1).
Splice(s, i) == SubSeq(s, 1, i - 1) \o SubSeq(s, i + 1, Len(s))

\* Array.prototype.map.
MapSeq(s, F(_)) == [i \in 1..Len(s) |-> F(s[i])]

\* Array.prototype.slice(0, limit).
Slice(s, limit) == SubSeq(s, 1, IF Len(s) < limit THEN Len(s) ELSE limit)

\* The comparator (a, b) => a.createdAt.getTime() - b.createdAt.getTime().
CreatedBefore(a, b) == a.createdAt.ms < b.createdAt.ms

\* Array.prototype.sort is stable: an insertion sort that puts an element
\* after every element it does not compare strictly less than.
RECURSIVE InsertByCreatedAt(_, _)
InsertByCreatedAt(sorted, x) ==
    IF sorted = <<>> THEN <<x>>
    ELSE LET last == sorted[Len(sorted)]
         IN IF CreatedBefore(x, last)
            THEN Append(InsertByCreatedAt(SubSeq(sorted, 1, Len(sorted) - 1), x), last)
            ELSE Append(sorted, x)

RECURSIVE SortByCreatedAt(_)
SortByCreatedAt(s) ==
    IF s = <<>> THEN <<>>
    ELSE InsertByCreatedAt(SortByCreatedAt(SubSeq(s, 1, Len(s) - 1)), s[Len(s)])

----------------------------------------------------------------------------
(* Documents and records.                                                  *)

\* No document under an identifier.
NoDoc == [id |-> "none"]

\* Iteration order of a collection: by document identifier.
IdOrder == <<"w1", "w2">>
GroupIdOrder == <<"g1", "g2">>

Tags == {"dev", "news"}

\* `deleted` is an optional boolean: "undefined", "true" or "false".
Truthy(b) == b = "true"

\* updateDoc(ref, data): merge the given fields into the document.
Merge(doc, data) ==
    [f \in DOMAIN doc |-> IF f \in DOMAIN data THEN data[f] ELSE doc[f]]

\* (Variant: the updates are dropped.)
Spread_OriginalKept(original, updates) == original

\* { ...original, ...updates }
Spread(original, updates) == Merge(original, updates)

\* delete obj.field, for each field of a set.
DeleteFields(obj, fields) == [f \in (DOMAIN obj) \ fields |-> obj[f]]

IdsOf(list) == {list[i].id : i \in 1..Len(list)}

----------------------------------------------------------------------------
(* State.                                                                  *)

VARIABLES
    currentUser,                  \* store: signed-in user or NULL
    websites,                     \* store: local entries
    groups,                       \* store: local groups
    isLoading,                    \* store: loading flag
    unsubscribeWebsiteListener,   \* store: handle of the entries subscription or NULL
    unsubscribeGroupListener,     \* store: handle of the groups subscription or NULL
    listeners,                    \* database: the live change subscriptions
    loads,                        \* initial reads in flight
    pending,                      \* remote writes in flight
    remoteWebsites,               \* database: users/{uid}/websites
    remoteGroups,                 \* database: users/{uid}/groups
    now,                          \* the clock read by new Date()
    lastEvent,                    \* the call or callback that made the last step
    batch,                        \* the change records of the last entries delivery
    subLog,                       \* the onSnapshot and unsubscribe calls, in order    
    calls,                        \* the number of calls made by the user interface
    okVisits,                     \* per entry, the addVisit writes that succeeded
    sessionB,                     \* a second session (browser tab) of the same user
    importFlow                    \* application: the state of the import dialog

vars == <<currentUser, websites, groups, isLoading, unsubscribeWebsiteListener,
          unsubscribeGroupListener, listeners, loads, pending, remoteWebsites,
          remoteGroups, now, lastEvent, batch, subLog, calls, okVisits, sessionB,
          importFlow>>

storeVars == <<currentUser, websites, groups, isLoading,
               unsubscribeWebsiteListener, unsubscribeGroupListener>>

NoEvent == [op |-> "none"]

\* A second session that is not open: no entries, nothing delivered.
NoSession == [websites |-> <<>>, seen |-> [i \in Ids |-> NoDoc], batch |-> <<>>]

\* No import request is outstanding.
NoRequest == [state |-> "none", transport |-> "none", elapsed |-> 0, timer |-> FALSE]

\* The import dialog before its first use: the useState initial values.
NoImport ==
    [importLoading |-> FALSE, showImportModal |-> FALSE, importError |-> NULL,
     browserSites |-> <<>>, request |-> NoRequest]

\* create(...) initial state, lines 126-131; the database starts empty.
Init ==
    /\ currentUser = NULL
    /\ websites = <<>>
    /\ groups = <<>>
    /\ isLoading = TRUE
    /\ unsubscribeWebsiteListener = NULL
    /\ unsubscribeGroupListener = NULL
    /\ listeners = {}
    /\ loads = <<>>
    /\ pending = <<>>
    /\ remoteWebsites = [u \in Users |-> [i \in Ids |-> NoDoc]]
    /\ remoteGroups = [u \in Users |-> [i \in GroupIds |-> NoDoc]]
    /\ now = 1
    /\ lastEvent = NoEvent
    /\ batch = <<>>
    /\ subLog = <<>>
    /\ calls = 0
    /\ okVisits = [i \in Ids |-> 0]
    /\ sessionB = NoSession
    /\ importFlow = NoImport

----------------------------------------------------------------------------
(* Reconciliation: the onSnapshot callbacks.                               *)

\* (Variant: a 'modified' record of an entry that is present is ignored.)
ApplyWebsiteChange_ModifiedIgnored(updatedWebsites, change) ==
    LET website == fromFirestoreWebsite(change.doc)
        index == IF \E i \in 1..Len(updatedWebsites) : updatedWebsites[i].id = website.id
                 THEN 1 ELSE 0
    IN IF index = 0 /\ ~Truthy(website.deleted)
       THEN Append(updatedWebsites, website)
       ELSE updatedWebsites

\* One iteration of changes.forEach in the entries callback.
ApplyWebsiteChange(updatedWebsites, change) ==
    LET website == fromFirestoreWebsite(change.doc)
        SameId(w) == w.id = website.id
        index == FindIndex(updatedWebsites, SameId)
    IN IF Truthy(website.deleted)
       THEN IF index # 0 THEN Splice(updatedWebsites, index) ELSE updatedWebsites
       ELSE IF change.type = "added"
       THEN IF index = 0 THEN Append(updatedWebsites, website)
            ELSE [updatedWebsites EXCEPT ![index] = website]
       ELSE IF change.type = "modified"
       THEN IF index # 0 THEN [updatedWebsites EXCEPT ![index] = website]
            ELSE Append(updatedWebsites, website)
       ELSE IF change.type = "removed"
       THEN IF index # 0 THEN Splice(updatedWebsites, index) ELSE updatedWebsites
       ELSE updatedWebsites

RECURSIVE ForEachWebsiteChange(_, _)
ForEachWebsiteChange(updatedWebsites, changes) ==
    IF changes = <<>> THEN updatedWebsites
    ELSE ForEachWebsiteChange(ApplyWebsiteChange(updatedWebsites, Head(changes)),
                              Tail(changes))

\* (Variant: the callback without its final sort.)
OnWebsitesSnapshot_Unsorted(currentWebsites, changes) ==
    ForEachWebsiteChange(currentWebsites, changes)

\* The entries callback: the list handed to set({ websites: ... }).
OnWebsitesSnapshot(currentWebsites, changes) ==
    SortByCreatedAt(ForEachWebsiteChange(currentWebsites, changes))

\* One iteration of changes.forEach in the groups callback: the document
\* is used as it is, without any conversion of its timestamps.
ApplyGroupChange(updatedGroups, change) ==
    LET group == change.doc
        SameId(g) == g.id = group.id
        index == FindIndex(updatedGroups, SameId)
    IN IF Truthy(group.deleted)
       THEN IF index # 0 THEN Splice(updatedGroups, index) ELSE updatedGroups
       ELSE IF change.type = "added"
       THEN IF index = 0 THEN Append(updatedGroups, group)
            ELSE [updatedGroups EXCEPT ![index] = group]
       ELSE IF change.type = "modified"
       THEN IF index # 0 THEN [updatedGroups EXCEPT ![index] = group]
            ELSE Append(updatedGroups, group)
       ELSE IF change.type = "removed"
       THEN IF index # 0 THEN Splice(updatedGroups, index) ELSE updatedGroups
       ELSE updatedGroups

RECURSIVE ForEachGroupChange(_, _)
ForEachGroupChange(updatedGroups, changes) ==
    IF changes = <<>> THEN updatedGroups
    ELSE ForEachGroupChange(ApplyGroupChange(updatedGroups, Head(changes)),
                            Tail(changes))

\* a.createdAt.getTime() is a TypeError when createdAt is a string; the
\* comparator runs, on every element, as soon as there are two elements.
SortThrows(list) ==
    /\ Len(list) >= 2
    /\ \E i \in 1..Len(list) : list[i].createdAt.k # "Date"

\* The groups callback: the list left in the store.  When the sort throws
\* the callback ends before set({ groups: ... }).
OnGroupsSnapshot(currentGroups, changes) ==
    LET updatedGroups == ForEachGroupChange(currentGroups, changes)
    IN IF SortThrows(updatedGroups) THEN currentGroups
       ELSE SortByCreatedAt(updatedGroups)

----------------------------------------------------------------------------
(* The database: queries, subscriptions.                                   *)

SubIds == <<"s1", "s2", "s3", "s4">>

\* where('deleted', '!=', true): a document without the field does not match.
DeletedNotTrue(d) == d.deleted = "false"

\* getDocs(query(collection, where('deleted', '!=', true))): the matching
\* documents of a collection, in iteration order.
RECURSIVE QueryNotDeleted(_, _)
QueryNotDeleted(coll, order) ==
    IF order = <<>> THEN <<>>
    ELSE LET d == coll[Head(order)]
             rest == QueryNotDeleted(coll, Tail(order))
         IN IF d # NoDoc /\ DeletedNotTrue(d) THEN <<d>> \o rest ELSE rest

\* snapshot.docChanges(): the difference between the collection and the view
\* the subscription delivered last, one record per changed document.
RECURSIVE DocChanges(_, _, _)
DocChanges(coll, seen, order) ==
    IF order = <<>> THEN <<>>
    ELSE LET i == Head(order)
             rest == DocChanges(coll, seen, Tail(order))
         IN IF coll[i] = seen[i] THEN rest
            ELSE IF seen[i] = NoDoc THEN <<[type |-> "added", doc |-> coll[i]]>> \o rest
            ELSE IF coll[i] = NoDoc THEN <<[type |-> "removed", doc |-> seen[i]]>> \o rest
            ELSE <<[type |-> "modified", doc |-> coll[i]]>> \o rest

\* The first identifier of a list that is not in a set; NULL when none is left.
FirstFree(order, used) ==
    LET free == {i \in 1..Len(order) : order[i] \notin used}
    IN IF free = {} THEN NULL
       ELSE order[CHOOSE i \in free : \A j \in free : i <= j]

\* (Variant: setCurrentUser forgets the handles without calling them.)
PreviousUserUnsubscribed_NotCalled(live, websiteHandle, groupHandle) == live

\* Calling the unsubscribe functions the store holds: setCurrentUser.
PreviousUserUnsubscribed(live, websiteHandle, groupHandle) ==
    {s \in live : s.sid \notin {websiteHandle, groupHandle}}

\* (Variant: setupFirestoreListeners leaves the earlier subscriptions open.)
PreviousListenersCleared_NotCalled(live, websiteHandle, groupHandle) == live

\* Calling the unsubscribe functions the store holds: setupFirestoreListeners.
PreviousListenersCleared(live, websiteHandle, groupHandle) ==
    {s \in live : s.sid \notin {websiteHandle, groupHandle}}

\* The two onSnapshot calls of setupFirestoreListeners(userId), made while
\* the subscriptions in `live` are open.
NewSubscriptions(live, userId) ==
    LET used == {s.sid : s \in live}
        sidW == FirstFree(SubIds, used)
        sidG == FirstFree(SubIds, used \cup {sidW})
    IN [websites |-> [sid |-> sidW, kind |-> "websites", user |-> userId,
                      first |-> TRUE, failed |-> FALSE,
                      seen |-> [i \in Ids |-> NoDoc]],
        groups |-> [sid |-> sidG, kind |-> "groups", user |-> userId,
                    first |-> TRUE, failed |-> FALSE,
                    seen |-> [i \in GroupIds |-> NoDoc]]]

\* The subscriptions of a set, in the order of their handles.
RECURSIVE InSidOrder(_, _)
InSidOrder(subs, order) ==
    IF order = <<>> THEN <<>>
    ELSE LET here == {s \in subs : s.sid = Head(order)}
         IN (IF here = {} THEN <<>> ELSE <<CHOOSE s \in here : TRUE>>)
            \o InSidOrder(subs, Tail(order))

\* The record of a call of onSnapshot or of an unsubscribe function.
SubEvent(ev, s) == [ev |-> ev, sid |-> s.sid, kind |-> s.kind, user |-> s.user]

Closed(before, after) ==
    MapSeq(InSidOrder(before \ after, SubIds), LAMBDA s : SubEvent("unsubscribe", s))

\* (Variant: setupFirestoreListeners is not reached.)
SetupFirestoreListeners_NotReached(userId) ==
    UNCHANGED <<listeners, subLog, unsubscribeWebsiteListener, unsubscribeGroupListener>>

\* setupFirestoreListeners(userId), as an update of the listener state.
SetupFirestoreListeners(userId) ==
    LET live == PreviousListenersCleared(listeners, unsubscribeWebsiteListener,
                                         unsubscribeGroupListener)
        new == NewSubscriptions(live, userId)
    IN /\ new.groups.sid # NULL
       /\ listeners' = live \cup {new.websites, new.groups}
       /\ subLog' = subLog \o Closed(listeners, live)
                      \o <<SubEvent("onSnapshot", new.websites),
                           SubEvent("onSnapshot", new.groups)>>
       /\ unsubscribeWebsiteListener' = new.websites.sid
       /\ unsubscribeGroupListener' = new.groups.sid

----------------------------------------------------------------------------
(* Session: sign-in, sign-out, initial read.                               *)

\* setCurrentUser(userId) up to its await: the subscriptions of the previous
\* user are closed, the state is reset and, for a user, the initial read is
\* started (loadWebsitesAndGroups sets isLoading before it awaits).
setCurrentUser(userId) ==
    /\ userId # NULL => Len(loads) < MaxLoads
    /\ listeners' = PreviousUserUnsubscribed(listeners, unsubscribeWebsiteListener,
                                             unsubscribeGroupListener)
    /\ currentUser' = userId
    /\ websites' = <<>>
    /\ groups' = <<>>
    /\ isLoading' = (userId # NULL)
    /\ unsubscribeWebsiteListener' = NULL
    /\ unsubscribeGroupListener' = NULL
    /\ loads' = IF userId # NULL
                THEN Append(loads, [user |-> userId, setup |-> TRUE])
                ELSE loads
    /\ subLog' = subLog \o Closed(listeners, listeners')
    /\ lastEvent' = [op |-> "setCurrentUser", user |-> userId]
    /\ UNCHANGED <<pending, remoteWebsites, remoteGroups, now, batch>>

\* The mount effect of the application: loadWebsitesAndGroups(currentUser)
\* whenever a user is signed in; no subscriptions are set up by it.
loadWebsitesAndGroups ==
    /\ currentUser # NULL
    /\ Len(loads) < MaxLoads
    /\ isLoading' = TRUE
    /\ loads' = Append(loads, [user |-> currentUser, setup |-> FALSE])
    /\ lastEvent' = [op |-> "loadWebsitesAndGroups", user |-> currentUser]
    /\ UNCHANGED <<currentUser, websites, groups, unsubscribeWebsiteListener,
                   unsubscribeGroupListener, listeners, pending, remoteWebsites,
                   remoteGroups, now, batch, subLog>>

\* loadFromFirestore(userId): the result of the batched read; a failed read
\* is caught and yields empty lists.
loadFromFirestore(userId, ok) ==
    IF ok
    THEN [websites |-> MapSeq(QueryNotDeleted(remoteWebsites[userId], IdOrder),
                              fromFirestoreWebsite),
          groups |-> QueryNotDeleted(remoteGroups[userId], GroupIdOrder)]
    ELSE [websites |-> <<>>, groups |-> <<>>]

\* The initial read of loads[i] resolves: loadWebsitesAndGroups stores the
\* result, and setCurrentUser, when it is the caller, goes on to
\* setupFirestoreListeners.
LoadResolves(i, ok) ==
    /\ i \in 1..Len(loads)
    /\ LET l == loads[i]
           r == loadFromFirestore(l.user, ok)
       IN /\ websites' = r.websites
          /\ groups' = r.groups
          /\ isLoading' = FALSE
          /\ loads' = Splice(loads, i)
          /\ lastEvent' = [op |-> "loadResolves", user |-> l.user, ok |-> ok,
                           setup |-> l.setup]
          /\ IF l.setup
             THEN SetupFirestoreListeners(l.user)
             ELSE UNCHANGED <<listeners, subLog, unsubscribeWebsiteListener,
                              unsubscribeGroupListener>>
    /\ UNCHANGED <<currentUser, pending, remoteWebsites, remoteGroups, now, batch>>

\* The entries subscription s delivers a snapshot.
WebsitesSnapshot(s) ==
    /\ s \in listeners
    /\ s.kind = "websites"
    /\ ~s.failed
    /\ LET changes == DocChanges(remoteWebsites[s.user], s.seen, IdOrder)
       IN /\ s.first \/ changes # <<>>
          /\ websites' = OnWebsitesSnapshot(websites, changes)
          /\ batch' = changes
          /\ listeners' = (listeners \ {s}) \cup
                 {[s EXCEPT !.first = FALSE, !.seen = remoteWebsites[s.user]]}
          /\ lastEvent' = [op |-> "websitesSnapshot", user |-> s.user,
                           threw |-> SortThrows(ForEachWebsiteChange(websites, changes))]
    /\ UNCHANGED <<currentUser, groups, isLoading, unsubscribeWebsiteListener,
                   unsubscribeGroupListener, loads, pending, remoteWebsites,
                   remoteGroups, now, subLog>>

\* The groups subscription s delivers a snapshot.
GroupsSnapshot(s) ==
    /\ s \in listeners
    /\ s.kind = "groups"
    /\ ~s.failed
    /\ LET changes == DocChanges(remoteGroups[s.user], s.seen, GroupIdOrder)
       IN /\ s.first \/ changes # <<>>
          /\ groups' = OnGroupsSnapshot(groups, changes)
          /\ listeners' = (listeners \ {s}) \cup
                 {[s EXCEPT !.first = FALSE, !.seen = remoteGroups[s.user]]}
          /\ lastEvent' = [op |-> "groupsSnapshot", user |-> s.user,
                           threw |-> SortThrows(ForEachGroupChange(groups, changes))]
    /\ UNCHANGED <<currentUser, websites, isLoading, unsubscribeWebsiteListener,
                   unsubscribeGroupListener, loads, pending, remoteWebsites,
                   remoteGroups, now, batch, subLog>>

\* (Variant: the error callback subscribes again.)
WebsiteListenerError_Resubscribes(s) ==
    /\ s \in listeners
    /\ s.kind = "websites"
    /\ ~s.failed
    /\ listeners' = (listeners \ {s}) \cup
                       {[s EXCEPT !.first = TRUE, !.seen = [i \in Ids |-> NoDoc]]}
    /\ subLog' = Append(subLog, SubEvent("onSnapshot", s))
    /\ lastEvent' = [op |-> "websiteListenerError", user |-> s.user]
    /\ UNCHANGED <<storeVars, loads, pending, remoteWebsites, remoteGroups, now,
                   batch>>

\* The subscription s fails: the database calls the error callback once and
\* delivers nothing to s afterwards.  The callback of the entries
\* subscription writes the error to the console.
WebsiteListenerError(s) ==
    /\ s \in listeners
    /\ s.kind = "websites"
    /\ ~s.failed
    /\ listeners' = (listeners \ {s}) \cup {[s EXCEPT !.failed = TRUE]}
    /\ lastEvent' = [op |-> "websiteListenerError", user |-> s.user]
    /\ UNCHANGED <<storeVars, loads, pending, remoteWebsites, remoteGroups, now,
                   batch, subLog>>

\* The error callback of the groups subscription s.
GroupListenerError(s) ==
    /\ s \in listeners
    /\ s.kind = "groups"
    /\ ~s.failed
    /\ listeners' = (listeners \ {s}) \cup {[s EXCEPT !.failed = TRUE]}
    /\ lastEvent' = [op |-> "groupListenerError", user |-> s.user]
    /\ UNCHANGED <<storeVars, loads, pending, remoteWebsites, remoteGroups, now,
                   batch, subLog>>

\* Time passes.
Tick ==
    /\ now < MaxTime
    /\ now' = now + 1
    /\ lastEvent' = NoEvent
    /\ UNCHANGED <<storeVars, listeners, loads, pending, remoteWebsites,
                   remoteGroups, batch, subLog>>

----------------------------------------------------------------------------
(* Store operations on entries.  Each action is the operation up to its    *)
(* await; the rest of the operation runs when the remote write resolves.   *)

\* The payloads and partial updates the callers pass.
TagLists == {<<"dev">>, <<"news">>}
AddWebsitePayloads == {[tags |-> t] : t \in TagLists}
EditUpdates == {[tags |-> <<>>]}

\* (Variant: the owner is not compared.)
IsItemOf_AnyOwner(item, id, user) == item.id = id

\* `w.id === websiteId && w.userId === currentUser`, the test by which the
\* operations find their entry or group.
IsItemOf(item, id, user) == item.id = id /\ item.userId = user

\* (Variant: the operations run without a signed-in user.)
NotSignedIn_Unchecked(user) == FALSE

\* `if (!currentUser) return`
NotSignedIn(user) == user = NULL

\* Everything but the record of the call is left as it was.
Returns(event) ==
    /\ lastEvent' = event
    /\ UNCHANGED <<storeVars, listeners, loads, pending, remoteWebsites,
                   remoteGroups, now, batch, subLog>>

\* The identifiers in use anywhere: crypto.randomUUID() returns none of them.
UsedIds ==
    IdsOf(websites) \cup {p.id : p \in Range(pending)}
    \cup {i \in Ids : \E u \in Users : remoteWebsites[u][i] # NoDoc}
UsedGroupIds ==
    IdsOf(groups) \cup {p.id : p \in Range(pending)}
    \cup {i \in GroupIds : \E u \in Users : remoteGroups[u][i] # NoDoc}

\* (Variant: the write goes to the other collection.)
Write_OtherCollection(op, coll, kind, id, snap, data) ==
    [op |-> op, coll |-> IF coll = "groups" THEN "websites" ELSE "groups",
     kind |-> kind, user |-> currentUser, id |-> id, snap |-> snap, data |-> data]

\* A remote write handed to the database.
Write(op, coll, kind, id, snap, data) ==
    [op |-> op, coll |-> coll, kind |-> kind, user |-> currentUser, id |-> id,
     snap |-> snap, data |-> data]

\* The entry addWebsite builds from its payload.
NewWebsite(websiteData, id, user, time) ==
    [id |-> id, userId |-> user, visits |-> 0, createdAt |-> DateOf(time),
     lastVisit |-> Undefined, deleted |-> "undefined", deletedAt |-> Undefined,
     tags |-> websiteData.tags]

addWebsite(websiteData) ==
    LET event == [op |-> "addWebsite", user |-> currentUser, id |-> NULL,
                  payload |-> websiteData]
    IN IF NotSignedIn(currentUser) THEN Returns(event)
       ELSE LET id == FirstFree(IdOrder, UsedIds)
                newWebsite == NewWebsite(websiteData, id, currentUser, now)
            IN /\ id # NULL
               /\ Len(pending) < MaxPending
               /\ websites' = Append(websites, newWebsite)
               /\ pending' = Append(pending,
                      Write("addWebsite", "websites", "setDoc", id, newWebsite,
                            toFirestoreWebsite(newWebsite)))
               /\ lastEvent' = [event EXCEPT !.id = id]
               /\ UNCHANGED <<currentUser, groups, isLoading, unsubscribeWebsiteListener,
                              unsubscribeGroupListener, listeners, loads, remoteWebsites,
                              remoteGroups, now, batch, subLog>>

\* (Variant: addVisit leaves the local entry as it is.)
VisitedWebsite_Unchanged(websiteToUpdate, time) == websiteToUpdate

\* The entry addVisit puts in place of websiteToUpdate.
VisitedWebsite(websiteToUpdate, time) ==
    [websiteToUpdate EXCEPT !.visits = websiteToUpdate.visits + 1,
                            !.lastVisit = DateOf(time)]

\* (Variant: the whole entry is sent.)
VisitFields_WholeEntry(updatedWebsite) == toFirestoreWebsite(updatedWebsite)

\* The fields addVisit passes to updateDoc.
VisitFields(updatedWebsite) ==
    [visits |-> updatedWebsite.visits,
     lastVisit |-> toISOString(updatedWebsite.lastVisit)]

addVisit(websiteId) ==
    LET event == [op |-> "addVisit", user |-> currentUser, id |-> websiteId]
        Mine(w) == IsItemOf(w, websiteId, currentUser)
        websiteIndex == FindIndex(websites, Mine)
    IN IF NotSignedIn(currentUser) \/ websiteIndex = 0 THEN Returns(event)
       ELSE LET websiteToUpdate == websites[websiteIndex]
                updatedWebsite == VisitedWebsite(websiteToUpdate, now)
            IN /\ websiteToUpdate.visits < MaxVisits
               /\ Len(pending) < MaxPending
               /\ websites' = [websites EXCEPT ![websiteIndex] = updatedWebsite]
               /\ pending' = Append(pending,
                      Write("addVisit", "websites", "updateDoc", websiteId, websiteToUpdate,
                            VisitFields(updatedWebsite)))
               /\ lastEvent' = event
               /\ UNCHANGED <<currentUser, groups, isLoading, unsubscribeWebsiteListener,
                              unsubscribeGroupListener, listeners, loads, remoteWebsites,
                              remoteGroups, now, batch, subLog>>

\* (Variant: the optimistic removal is left out.)
WithoutId_Kept(list, id) == list

\* state.websites.filter(w => w.id !== websiteId)
WithoutId(list, id) == SelectSeq(list, LAMBDA w : w.id # id)

removeWebsite(websiteId) ==
    LET event == [op |-> "removeWebsite", user |-> currentUser, id |-> websiteId]
        Mine(w) == IsItemOf(w, websiteId, currentUser)
        websiteIndex == FindIndex(websites, Mine)
    IN IF NotSignedIn(currentUser) \/ websiteIndex = 0 THEN Returns(event)
       ELSE LET websiteToRemove == websites[websiteIndex]
            IN /\ Len(pending) < MaxPending
               /\ websites' = WithoutId(websites, websiteId)
               /\ pending' = Append(pending,
                      Write("removeWebsite", "websites", "updateDoc", websiteId,
                            websiteToRemove,
                            [deleted |-> "true", deletedAt |-> toISOString(DateOf(now))]))
               /\ lastEvent' = event
               /\ UNCHANGED <<currentUser, groups, isLoading, unsubscribeWebsiteListener,
                              unsubscribeGroupListener, listeners, loads, remoteWebsites,
                              remoteGroups, now, batch, subLog>>

\* (Variant: the fields managed elsewhere are sent along.)
FirestoreUpdates_NotStripped(updates) ==
    [f \in DOMAIN updates |->
        IF f \in {"lastVisit", "deletedAt"} THEN toISOString(updates[f])
        ELSE updates[f]]

\* The fields editWebsite sends: timestamps as ISO strings, undefined ones
\* and the fields managed elsewhere dropped.
FirestoreUpdates(updates) ==
    LET converted ==
            [f \in DOMAIN updates |->
                IF f \in {"lastVisit", "deletedAt"} THEN toISOString(updates[f])
                ELSE updates[f]]
        undefinedDates ==
            {f \in DOMAIN updates \cap {"lastVisit", "deletedAt"} : updates[f].k # "Date"}
    IN DeleteFields(converted, undefinedDates \cup {"visits", "createdAt", "userId", "id"})

editWebsite(websiteId, updates) ==
    LET event == [op |-> "editWebsite", user |-> currentUser, id |-> websiteId,
                  updates |-> updates]
        Mine(w) == IsItemOf(w, websiteId, currentUser)
        websiteIndex == FindIndex(websites, Mine)
    IN IF NotSignedIn(currentUser) \/ websiteIndex = 0 THEN Returns(event)
       ELSE LET originalWebsite == websites[websiteIndex]
                updatedWebsite == Spread(originalWebsite, updates)
            IN /\ Len(pending) < MaxPending
               /\ websites' = [websites EXCEPT ![websiteIndex] = updatedWebsite]
               /\ pending' = Append(pending,
                      Write("editWebsite", "websites", "updateDoc", websiteId,
                            originalWebsite, FirestoreUpdates(updates)))
               /\ lastEvent' = event
               /\ UNCHANGED <<currentUser, groups, isLoading, unsubscribeWebsiteListener,
                              unsubscribeGroupListener, listeners, loads, remoteWebsites,
                              remoteGroups, now, batch, subLog>>

\* (Variant: the snapshot is put in place of every entry.)
Restored_All(list, id, original) == [i \in 1..Len(list) |-> original]

\* state.websites.map(w => w.id === id ? original : w)
Restored(list, id, original) ==
    [i \in 1..Len(list) |-> IF list[i].id = id THEN original ELSE list[i]]

\* (Variant: a failed addWebsite restores a snapshot like the other
\* operations, which leaves the added entry in place.)
WebsiteRollback_AddKept(p, list) ==
    IF p.op = "removeWebsite" THEN SortByCreatedAt(Append(list, p.snap))
    ELSE Restored(list, p.id, p.snap)

\* (Variant: a failed removeWebsite appends the entry without sorting.)
WebsiteRollback_Unsorted(p, list) ==
    IF p.op = "addWebsite" THEN WithoutId(list, p.id)
    ELSE IF p.op = "removeWebsite" THEN Append(list, p.snap)
    ELSE Restored(list, p.id, p.snap)

\* The catch block of the entry operation whose write p failed: the list
\* handed to set.
WebsiteRollback(p, list) ==
    IF p.op = "addWebsite" THEN WithoutId(list, p.id)
    ELSE IF p.op = "removeWebsite" THEN SortByCreatedAt(Append(list, p.snap))
    ELSE Restored(list, p.id, p.snap)

----------------------------------------------------------------------------
(* Derived views.                                                          *)

\* (Variant: the views without their filter.)
Visible_All(list) == list

\* .filter(w => w.userId === currentUser && !w.deleted)
Visible(list) ==
    SelectSeq(list, LAMBDA w : w.userId = currentUser /\ ~Truthy(w.deleted))

\* (Variant: the most-visited view without its sort.)
SortByVisits_Unsorted(list) == list

\* The comparator (a, b) => (b.visits || 0) - (a.visits || 0), stable.
RECURSIVE SortByVisits(_)
SortByVisits(list) ==
    IF list = <<>> THEN <<>>
    ELSE LET x == list[Len(list)]
             sorted == SortByVisits(SubSeq(list, 1, Len(list) - 1))
             after == {i \in 1..Len(sorted) : sorted[i].visits < x.visits}
             k == IF after = {} THEN Len(sorted) + 1
                  ELSE CHOOSE i \in after : \A j \in after : i <= j
         IN SubSeq(sorted, 1, k - 1) \o <<x>> \o SubSeq(sorted, k, Len(sorted))

\* a.lastVisit?.getTime() ?? a.createdAt?.getTime() ?? 0
RecentTime(w) == IF w.lastVisit.k = "Date" THEN w.lastVisit.ms ELSE w.createdAt.ms

\* The comparator (a, b) => timeB - timeA, stable.
RECURSIVE SortByRecent(_)
SortByRecent(list) ==
    IF list = <<>> THEN <<>>
    ELSE LET x == list[Len(list)]
             sorted == SortByRecent(SubSeq(list, 1, Len(list) - 1))
             after == {i \in 1..Len(sorted) : RecentTime(sorted[i]) < RecentTime(x)}
             k == IF after = {} THEN Len(sorted) + 1
                  ELSE CHOOSE i \in after : \A j \in after : i <= j
         IN SubSeq(sorted, 1, k - 1) \o <<x>> \o SubSeq(sorted, k, Len(sorted))

\* getMostVisitedWebsites(limit = 10), getRecentWebsites(limit = 10)
DefaultLimit == 10

getMostVisitedWebsites(limit) ==
    IF NotSignedIn(currentUser) THEN <<>>
    ELSE Slice(SortByVisits(Visible(websites)), limit)

getRecentWebsites(limit) ==
    IF NotSignedIn(currentUser) THEN <<>>
    ELSE Slice(SortByRecent(Visible(websites)), limit)

\* .flatMap(website => website.tags || [])
RECURSIVE FlatMapTags(_)
FlatMapTags(list) ==
    IF list = <<>> THEN <<>>
    ELSE Head(list).tags \o FlatMapTags(Tail(list))

\* [...new Set(s)]: the distinct elements, in order of first occurrence.
RECURSIVE SpreadOfSet(_)
SpreadOfSet(s) ==
    IF s = <<>> THEN <<>>
    ELSE LET front == SpreadOfSet(SubSeq(s, 1, Len(s) - 1))
             x == s[Len(s)]
         IN IF x \in Range(front) THEN front ELSE Append(front, x)

\* (Variant: getTags without its filter.)
getTags_Unfiltered ==
    IF NotSignedIn(currentUser) THEN <<>>
    ELSE SpreadOfSet(FlatMapTags(websites))

getTags ==
    IF NotSignedIn(currentUser) THEN <<>>
    ELSE SpreadOfSet(FlatMapTags(Visible(websites)))

getWebsitesByTag(tag) ==
    IF NotSignedIn(currentUser) THEN <<>>
    ELSE SelectSeq(websites, LAMBDA w : /\ w.userId = currentUser
                                        /\ ~Truthy(w.deleted)
                                        /\ tag \in Range(w.tags))

----------------------------------------------------------------------------
(* Store operations on groups.                                             *)

GroupNames == {"a"}
GroupUpdates == {[name |-> "b"]}

\* !value for an optional boolean.
Negated(b) == IF Truthy(b) THEN "false" ELSE "true"

\* The group addGroup builds.
NewGroup(name, id, user, time) ==
    [id |-> id, userId |-> user, name |-> name, isExpanded |-> "true",
     createdAt |-> DateOf(time), deleted |-> "undefined", deletedAt |-> Undefined]

addGroup(name) ==
    LET event == [op |-> "addGroup", user |-> currentUser, id |-> NULL]
    IN IF NotSignedIn(currentUser) THEN Returns(event)
       ELSE LET id == FirstFree(GroupIdOrder, UsedGroupIds)
                newGroup == NewGroup(name, id, currentUser, now)
            IN /\ id # NULL
               /\ Len(pending) < MaxPending
               /\ groups' = Append(groups, newGroup)
               /\ pending' = Append(pending,
                      Write("addGroup", "groups", "setDoc", id, newGroup,
                            toFirestoreGroup(newGroup)))
               /\ lastEvent' = [op |-> event.op, user |-> event.user, id |-> id,
                                before |-> groups]
               /\ UNCHANGED <<currentUser, websites, isLoading, unsubscribeWebsiteListener,
                              unsubscribeGroupListener, listeners, loads, remoteWebsites,
                              remoteGroups, now, batch, subLog>>

\* The fields updateGroup sends.
FirestoreGroupUpdates(updates) ==
    LET converted ==
            [f \in DOMAIN updates |->
                IF f = "deletedAt" THEN toISOString(updates[f]) ELSE updates[f]]
        undefinedDates == {f \in DOMAIN updates \cap {"deletedAt"} : updates[f].k # "Date"}
    IN DeleteFields(converted, undefinedDates \cup {"createdAt", "userId", "id"})

updateGroup(id, updates) ==
    LET event == [op |-> "updateGroup", user |-> currentUser, id |-> id]
        Mine(g) == IsItemOf(g, id, currentUser)
        groupIndex == FindIndex(groups, Mine)
    IN IF NotSignedIn(currentUser) \/ groupIndex = 0 THEN Returns(event)
       ELSE LET originalGroup == groups[groupIndex]
                updatedGroup == Spread(originalGroup, updates)
            IN /\ Len(pending) < MaxPending
               /\ groups' = [groups EXCEPT ![groupIndex] = updatedGroup]
               /\ pending' = Append(pending,
                      Write("updateGroup", "groups", "updateDoc", id, originalGroup,
                            FirestoreGroupUpdates(updates)))
               /\ lastEvent' = [op |-> event.op, user |-> event.user, id |-> event.id,
                                before |-> groups]
               /\ UNCHANGED <<currentUser, websites, isLoading, unsubscribeWebsiteListener,
                              unsubscribeGroupListener, listeners, loads, remoteWebsites,
                              remoteGroups, now, batch, subLog>>

deleteGroup(id) ==
    LET event == [op |-> "deleteGroup", user |-> currentUser, id |-> id]
        Mine(g) == IsItemOf(g, id, currentUser)
        groupIndex == FindIndex(groups, Mine)
    IN IF NotSignedIn(currentUser) \/ groupIndex = 0 THEN Returns(event)
       ELSE LET groupToDelete == groups[groupIndex]
            IN /\ Len(pending) < MaxPending
               /\ groups' = WithoutId(groups, id)
               /\ pending' = Append(pending,
                      Write("deleteGroup", "groups", "updateDoc", id, groupToDelete,
                            [deleted |-> "true", deletedAt |-> toISOString(DateOf(now))]))
               /\ lastEvent' = [op |-> event.op, user |-> event.user, id |-> event.id,
                                before |-> groups]
               /\ UNCHANGED <<currentUser, websites, isLoading, unsubscribeWebsiteListener,
                              unsubscribeGroupListener, listeners, loads, remoteWebsites,
                              remoteGroups, now, batch, subLog>>

toggleGroupExpansion(id) ==
    LET event == [op |-> "toggleGroupExpansion", user |-> currentUser, id |-> id]
        Mine(g) == IsItemOf(g, id, currentUser)
        groupIndex == FindIndex(groups, Mine)
    IN IF NotSignedIn(currentUser) \/ groupIndex = 0 THEN Returns(event)
       ELSE LET originalGroup == groups[groupIndex]
                updatedGroup == [originalGroup EXCEPT
                                    !.isExpanded = Negated(originalGroup.isExpanded)]
            IN /\ Len(pending) < MaxPending
               /\ groups' = [groups EXCEPT ![groupIndex] = updatedGroup]
               /\ pending' = Append(pending,
                      Write("toggleGroupExpansion", "groups", "updateDoc", id,
                            originalGroup, [isExpanded |-> updatedGroup.isExpanded]))
               /\ lastEvent' = [op |-> event.op, user |-> event.user, id |-> event.id,
                                before |-> groups]
               /\ UNCHANGED <<currentUser, websites, isLoading, unsubscribeWebsiteListener,
                              unsubscribeGroupListener, listeners, loads, remoteWebsites,
                              remoteGroups, now, batch, subLog>>

\* The catch block of the group operation whose write p failed: the list
\* left in the store.  The sort of deleteGroup's catch block may throw, and
\* then set is not reached.
GroupRollback(p, list) ==
    IF p.op = "addGroup" THEN WithoutId(list, p.id)
    ELSE IF p.op = "deleteGroup"
    THEN IF SortThrows(Append(list, p.snap)) THEN list
         ELSE SortByCreatedAt(Append(list, p.snap))
    ELSE Restored(list, p.id, p.snap)

----------------------------------------------------------------------------
(* Remote writes resolve.  The database client sends the writes of a       *)
(* session in the order they were issued, and each of them is accepted or  *)
(* rejected on its own.                                                    *)

\* The collection after the write p is applied.
Applied(coll, p) ==
    [coll EXCEPT ![p.user][p.id] =
        IF p.kind = "setDoc" THEN p.data ELSE Merge(coll[p.user][p.id], p.data)]

\* updateDoc needs the document to exist.
Applicable(coll, p) == p.kind = "setDoc" \/ coll[p.user][p.id] # NoDoc

\* The write pending[i] succeeds: the operation that awaits it ends.
WriteSucceeds(i) ==
    /\ i \in 1..Len(pending)
    /\ LET p == pending[i]
       IN /\ IF p.coll = "websites"
             THEN /\ Applicable(remoteWebsites, p)
                  /\ remoteWebsites' = Applied(remoteWebsites, p)
                  /\ UNCHANGED remoteGroups
             ELSE /\ Applicable(remoteGroups, p)
                  /\ remoteGroups' = Applied(remoteGroups, p)
                  /\ UNCHANGED remoteWebsites
          /\ okVisits' = IF p.op = "addVisit"
                          THEN [okVisits EXCEPT ![p.id] = @ + 1]
                          ELSE okVisits
          /\ lastEvent' = [op |-> "writeSucceeds", of |-> p.op, user |-> p.user,
                           id |-> p.id, write |-> p]
    /\ pending' = Splice(pending, i)
    /\ UNCHANGED <<storeVars, listeners, loads, now, batch, subLog>>

\* The catch blocks of removeWebsite and deleteGroup sort the list they put
\* back; an exception of the comparator leaves the catch block.
CatchThrows(p, entries, grps) ==
    \/ p.op = "removeWebsite" /\ SortThrows(Append(entries, p.snap))
    \/ p.op = "deleteGroup" /\ SortThrows(Append(grps, p.snap))

\* The write pending[i] fails: the catch block of its operation runs.
WriteFails(i) ==
    /\ i \in 1..Len(pending)
    /\ LET p == pending[i]
       IN /\ IF p.coll = "websites"
             THEN /\ websites' = WebsiteRollback(p, websites)
                  /\ UNCHANGED groups
             ELSE /\ groups' = GroupRollback(p, groups)
                  /\ UNCHANGED websites
          /\ lastEvent' = [op |-> "writeFails", of |-> p.op, user |-> p.user,
                           id |-> p.id, write |-> p,
                           threw |-> CatchThrows(p, websites, groups)]
    /\ pending' = Splice(pending, i)
    /\ UNCHANGED <<currentUser, isLoading, unsubscribeWebsiteListener,
                   unsubscribeGroupListener, listeners, loads, remoteWebsites,
                   remoteGroups, now, batch, subLog>>

----------------------------------------------------------------------------
(* The specification.                                                      *)

\* An event that starts outside the store: a call made by the user interface
\* or the failure of a subscription; the model follows MaxCalls of them.
Called == calls < MaxCalls /\ calls' = calls + 1 /\ UNCHANGED <<okVisits, sessionB, importFlow>>

\* A completion or a callback of the event loop.
Resolved == UNCHANGED <<calls, sessionB, importFlow>>

SignIn == Called /\ \E u \in Users : setCurrentUser(u)
SignOut == Called /\ setCurrentUser(NULL)
AppLoad == Called /\ loadWebsitesAndGroups
LoadOk == Resolved /\ UNCHANGED okVisits /\ \E i \in 1..Len(loads) : LoadResolves(i, TRUE)
LoadError == Resolved /\ UNCHANGED okVisits /\ \E i \in 1..Len(loads) : LoadResolves(i, FALSE)
EntriesDelivery == Resolved /\ UNCHANGED okVisits /\ \E s \in listeners : WebsitesSnapshot(s)
GroupsDelivery == Resolved /\ UNCHANGED okVisits /\ \E s \in listeners : GroupsSnapshot(s)
EntriesSubscriptionError ==
    Called /\ \E s \in listeners : WebsiteListenerError(s)
GroupsSubscriptionError ==
    Called /\ \E s \in listeners : GroupListenerError(s)
AddWebsite == Called /\ \E d \in AddWebsitePayloads : addWebsite(d)
AddVisit == Called /\ \E i \in Ids : addVisit(i)
RemoveWebsite == Called /\ \E i \in Ids : removeWebsite(i)
EditWebsite == Called /\ \E i \in Ids, u \in EditUpdates : editWebsite(i, u)
AddGroup == Called /\ \E n \in GroupNames : addGroup(n)
UpdateGroup == Called /\ \E i \in GroupIds, u \in GroupUpdates : updateGroup(i, u)
DeleteGroup == Called /\ \E i \in GroupIds : deleteGroup(i)
ToggleGroupExpansion == Called /\ \E i \in GroupIds : toggleGroupExpansion(i)
WriteOk == Resolved /\ WriteSucceeds(1)
Clock == Resolved /\ UNCHANGED okVisits /\ Tick
WriteError == Resolved /\ UNCHANGED okVisits /\ WriteFails(1)

Next ==
    \/ SignIn
    \/ SignOut
    \/ AppLoad
    \/ LoadOk
    \/ LoadError
    \/ EntriesDelivery
    \/ GroupsDelivery
    \/ EntriesSubscriptionError
    \/ GroupsSubscriptionError
    \/ AddWebsite
    \/ AddVisit
    \/ RemoveWebsite
    \/ EditWebsite
    \/ AddGroup
    \/ UpdateGroup
    \/ DeleteGroup
    \/ ToggleGroupExpansion
    \/ WriteOk
    \/ WriteError
    \/ Clock

Spec == Init /\ [][Next]_vars

----------------------------------------------------------------------------
(* The reconciliation callback on its own: any local list, any batch.      *)

ReconUser == "u1"

\* Local entries and remote documents of the reconciliation runs.
ReconEntries ==
    {[id |-> i, userId |-> ReconUser, visits |-> 0, createdAt |-> DateOf(t),
      lastVisit |-> Undefined, deleted |-> "undefined", deletedAt |-> Undefined,
      tags |-> <<>>] : i \in Ids, t \in 1..MaxTime}

ReconDocs ==
    {[toFirestoreWebsite(w) EXCEPT !.visits = 1, !.deleted = d] :
        w \in ReconEntries, d \in {"undefined", "true"}}

ReconChanges ==
    {[type |-> t, doc |-> d] : t \in {"added", "modified", "removed"}, d \in ReconDocs}

SeqsUpTo(S, n) == UNION {[1..k -> S] : k \in 0..n}

ReconInit ==
    /\ currentUser = ReconUser
    /\ websites \in SeqsUpTo(ReconEntries, MaxLocal)
    /\ groups = <<>>
    /\ isLoading = FALSE
    /\ unsubscribeWebsiteListener = NULL
    /\ unsubscribeGroupListener = NULL
    /\ listeners = {}
    /\ loads = <<>>
    /\ pending = <<>>
    /\ remoteWebsites = [u \in Users |-> [i \in Ids |-> NoDoc]]
    /\ remoteGroups = [u \in Users |-> [i \in GroupIds |-> NoDoc]]
    /\ now = 1
    /\ lastEvent = NoEvent
    /\ batch = <<>>
    /\ subLog = <<>>
    /\ calls = 0
    /\ okVisits = [i \in Ids |-> 0]
    /\ sessionB = NoSession
    /\ importFlow = NoImport

\* The entries callback runs on a batch of change records.
ReconDelivery ==
    \E changes \in SeqsUpTo(ReconChanges, MaxBatch) :
        /\ lastEvent = NoEvent
        /\ websites' = OnWebsitesSnapshot(websites, changes)
        /\ batch' = changes
        /\ lastEvent' = [op |-> "websitesSnapshot", user |-> ReconUser]
        /\ UNCHANGED <<currentUser, groups, isLoading, unsubscribeWebsiteListener,
                       unsubscribeGroupListener, listeners, loads, pending,
                       remoteWebsites, remoteGroups, now, subLog, calls, okVisits, sessionB,
                   importFlow>>

ReconNext == ReconDelivery

SpecRecon == ReconInit /\ [][ReconNext]_vars

----------------------------------------------------------------------------
(* editWebsite on its own: any partial update, whatever the caller's       *)
(* types allow, on any entry of a short local list.                        *)

EditFields ==
    {"id", "userId", "createdAt", "visits", "tags", "lastVisit", "deletedAt", "deleted"}

\* Values a partial update may carry, one record per choice of the optional
\* timestamps.
EditValues ==
    {[id |-> "w2", userId |-> "u2", createdAt |-> DateOf(MaxTime), visits |-> MaxVisits,
      tags |-> <<"news">>, lastVisit |-> lv, deletedAt |-> da, deleted |-> "true"] :
        lv \in {Undefined, DateOf(MaxTime)}, da \in {Undefined, DateOf(MaxTime)}}

AnyEditUpdates ==
    {[f \in fields |-> v[f]] : fields \in SUBSET EditFields, v \in EditValues}

EditInit ==
    /\ currentUser = ReconUser
    /\ websites \in SeqsUpTo(ReconEntries, 1)
    /\ groups = <<>>
    /\ isLoading = FALSE
    /\ unsubscribeWebsiteListener = NULL
    /\ unsubscribeGroupListener = NULL
    /\ listeners = {}
    /\ loads = <<>>
    /\ pending = <<>>
    /\ remoteWebsites = [u \in Users |-> [i \in Ids |-> NoDoc]]
    /\ remoteGroups = [u \in Users |-> [i \in GroupIds |-> NoDoc]]
    /\ now = 1
    /\ lastEvent = NoEvent
    /\ batch = <<>>
    /\ subLog = <<>>
    /\ calls = 0
    /\ okVisits = [i \in Ids |-> 0]
    /\ sessionB = NoSession
    /\ importFlow = NoImport

\* One call of editWebsite.
EditCall ==
    /\ lastEvent = NoEvent
    /\ \E i \in Ids, u \in AnyEditUpdates : editWebsite(i, u)
    /\ UNCHANGED <<calls, okVisits, sessionB, importFlow>>

EditNext == EditCall

SpecEdit == EditInit /\ [][EditNext]_vars

----------------------------------------------------------------------------
(* The derived views on their own: any current user, any short local list  *)
(* of entries of either user, deleted or not.                              *)

MaxLimit == 3

\* Visit count, creation time and last visit of the entries of the lists.
ViewProfiles ==
    {[visits |-> 0, createdAt |-> DateOf(MaxTime), lastVisit |-> Undefined],
     [visits |-> 1, createdAt |-> DateOf(1), lastVisit |-> DateOf(1)],
     [visits |-> MaxVisits, createdAt |-> DateOf(1), lastVisit |-> DateOf(MaxTime)]}

ViewTagLists == {<<"dev">>, <<"dev", "news">>}

ViewEntries ==
    {[id |-> IF Len(t) = 1 THEN "w1" ELSE "w2", userId |-> u, visits |-> f.visits,
      createdAt |-> f.createdAt, lastVisit |-> f.lastVisit, deleted |-> d,
      deletedAt |-> IF d = "true" THEN DateOf(MaxTime) ELSE Undefined, tags |-> t] :
        u \in Users, f \in ViewProfiles, d \in {"undefined", "true"}, t \in ViewTagLists}

\* The limits the callers pass; without an argument the limit is the default.
Limits == (0..MaxLimit) \cup {DefaultLimit}

ViewsInit ==
    /\ currentUser \in Users \cup {NULL}
    /\ websites \in SeqsUpTo(ViewEntries, MaxLocal)
    /\ groups = <<>>
    /\ isLoading = FALSE
    /\ unsubscribeWebsiteListener = NULL
    /\ unsubscribeGroupListener = NULL
    /\ listeners = {}
    /\ loads = <<>>
    /\ pending = <<>>
    /\ remoteWebsites = [u \in Users |-> [i \in Ids |-> NoDoc]]
    /\ remoteGroups = [u \in Users |-> [i \in GroupIds |-> NoDoc]]
    /\ now = 1
    /\ lastEvent = NoEvent
    /\ batch = <<>>
    /\ subLog = <<>>
    /\ calls = 0
    /\ okVisits = [i \in Ids |-> 0]
    /\ sessionB = NoSession
    /\ importFlow = NoImport

\* A view is called: it returns its result and sets nothing.
Returned(event) ==
    /\ lastEvent' = event
    /\ UNCHANGED <<storeVars, listeners, loads, pending, remoteWebsites, remoteGroups,
                   now, batch, subLog, calls, okVisits, sessionB,
                   importFlow>>

GetMostVisitedWebsites ==
    \E limit \in Limits :
        Returned([op |-> "getMostVisitedWebsites", limit |-> limit,
                  result |-> getMostVisitedWebsites(limit)])

GetRecentWebsites ==
    \E limit \in Limits :
        Returned([op |-> "getRecentWebsites", limit |-> limit,
                  result |-> getRecentWebsites(limit)])

GetTags == Returned([op |-> "getTags", result |-> getTags])

GetWebsitesByTag ==
    \E tag \in Tags :
        Returned([op |-> "getWebsitesByTag", tag |-> tag,
                  result |-> getWebsitesByTag(tag)])

ViewsNext ==
    \/ GetMostVisitedWebsites
    \/ GetRecentWebsites
    \/ GetTags
    \/ GetWebsitesByTag

SpecViews == ViewsInit /\ [][ViewsNext]_vars

----------------------------------------------------------------------------
(* The persistence conversions on their own: an entry is converted to its  *)
(* wire form and the wire form is converted back.                          *)

WireUser == "u1"

\* Time values on both sides of a whole second, the epoch included.
WireTimes == {0, 1, 999, 1000, 1001}

WireEntries ==
    {[id |-> "w1", userId |-> WireUser, visits |-> 0, createdAt |-> DateOf(c),
      lastVisit |-> v, deleted |-> IF d = Undefined THEN "undefined" ELSE "true",
      deletedAt |-> d, tags |-> <<>>] :
        c \in WireTimes,
        v \in {Undefined} \cup {DateOf(t) : t \in WireTimes},
        d \in {Undefined} \cup {DateOf(t) : t \in WireTimes}}

WireInit ==
    /\ currentUser = WireUser
    /\ websites \in {<<w>> : w \in WireEntries}
    /\ groups = <<>>
    /\ isLoading = FALSE
    /\ unsubscribeWebsiteListener = NULL
    /\ unsubscribeGroupListener = NULL
    /\ listeners = {}
    /\ loads = <<>>
    /\ pending = <<>>
    /\ remoteWebsites = [u \in Users |-> [i \in Ids |-> NoDoc]]
    /\ remoteGroups = [u \in Users |-> [i \in GroupIds |-> NoDoc]]
    /\ now = 1
    /\ lastEvent = NoEvent
    /\ batch = <<>>
    /\ subLog = <<>>
    /\ calls = 0
    /\ okVisits = [i \in Ids |-> 0]
    /\ sessionB = NoSession
    /\ importFlow = NoImport

\* toFirestoreWebsite(websites[0]).
ToWire ==
    /\ lastEvent = NoEvent
    /\ Returned([op |-> "toFirestoreWebsite", entry |-> websites[1],
                 wire |-> toFirestoreWebsite(websites[1])])

\* fromFirestoreWebsite of the wire form.
FromWire ==
    /\ lastEvent.op = "toFirestoreWebsite"
    /\ Returned([op |-> "fromFirestoreWebsite", entry |-> lastEvent.entry,
                 wire |-> lastEvent.wire,
                 back |-> fromFirestoreWebsite(lastEvent.wire)])

WireNext ==
    \/ ToWire
    \/ FromWire

SpecWire == WireInit /\ [][WireNext]_vars

----------------------------------------------------------------------------
(* The import dialog of the application.  handleImportCommand asks the     *)
(* browser extension for the frequently visited sites, over                *)
(* window.postMessage in Firefox and over chrome.runtime.sendMessage       *)
(* otherwise.  The request of a call is followed until it is answered or   *)
(* given up; time is counted on the request in steps of ImportTickMs.      *)

\* The delay of the setTimeout that gives up waiting for the answer.
ImportTimeoutMs == 5000
ImportTickMs == 1000

Transports == {"postMessage", "runtime"}

TimedOutMessage == "Extension communication timed out"
InstallMessage == "Please install the Web Launcher extension for Chrome"
FailedMessage == "Failed to get browser sites"

\* The answers of the extension: { success: true, sites } or
\* { success: false, error }, the error text possibly empty.
SiteLists == {<<>>, <<[url |-> "a", selected |-> FALSE]>>}
Responses ==
    {[success |-> TRUE, sites |-> l, error |-> ""] : l \in SiteLists}
    \cup {[success |-> FALSE, sites |-> <<>>, error |-> e] : e \in {"", "history unavailable"}}

\* `error || 'Failed to get browser sites'`
ErrorOr(error) == IF error = "" THEN FailedMessage ELSE error

\* One request is followed at a time.
RequestOutstanding == importFlow.request.state = "waiting"

ImportEvent(event) ==
    /\ lastEvent' = event
    /\ UNCHANGED <<storeVars, listeners, loads, pending, remoteWebsites, remoteGroups,
                   now, batch, subLog, calls, okVisits, sessionB>>

\* handleImportCommand in Firefox, up to `await messagePromise`: the request
\* is posted, the message listener is added and the timer is started.
HandleImportCommandFirefox ==
    /\ ~RequestOutstanding
    /\ importFlow' = [importFlow EXCEPT
           !.importLoading = TRUE,
           !.showImportModal = TRUE,
           !.importError = NULL,
           !.request = [state |-> "waiting", transport |-> "postMessage",
                        elapsed |-> 0, timer |-> TRUE]]
    /\ ImportEvent([op |-> "handleImportCommand", transport |-> "postMessage"])

\* handleImportCommand in another browser, the whole call: it awaits
\* nothing, so `finally` runs before any answer.  When sendMessage throws
\* (no `chrome.runtime` in the page) the inner catch rethrows and the outer
\* catch sets the error; otherwise the callback is left with the browser.
HandleImportCommandChrome(throws) ==
    /\ ~RequestOutstanding
    /\ importFlow' = [importFlow EXCEPT
           !.importLoading = FALSE,
           !.showImportModal = TRUE,
           !.importError = IF throws THEN InstallMessage ELSE NULL,
           !.request = IF throws THEN NoRequest
                       ELSE [state |-> "waiting", transport |-> "runtime",
                             elapsed |-> 0, timer |-> FALSE]]
    /\ ImportEvent([op |-> "handleImportCommand", transport |-> "runtime",
                    threw |-> throws])

\* handleMessage: the answer of the extension arrives as a window message
\* while the listener is there; the promise settles and handleImportCommand
\* runs on to its `finally`.  The timer is not cleared.
HandleMessage(response) ==
    /\ RequestOutstanding
    /\ importFlow.request.transport = "postMessage"
    /\ importFlow.request.elapsed < ImportTimeoutMs
    /\ importFlow' = [importFlow EXCEPT
           !.importLoading = FALSE,
           !.browserSites = IF response.success THEN response.sites ELSE @,
           !.importError = IF response.success THEN @ ELSE ErrorOr(response.error),
           !.request = [@ EXCEPT !.state = "settled"]]
    /\ ImportEvent([op |-> "handleMessage", response |-> response])

\* The setTimeout callback: the listener is removed and the promise is
\* rejected, which does nothing when the promise has been settled.
ImportTimeout ==
    /\ importFlow.request.timer
    /\ importFlow.request.elapsed >= ImportTimeoutMs
    /\ importFlow' =
           IF RequestOutstanding
           THEN [importFlow EXCEPT !.importLoading = FALSE,
                                   !.importError = TimedOutMessage,
                                   !.request = [@ EXCEPT !.state = "settled",
                                                         !.timer = FALSE]]
           ELSE [importFlow EXCEPT !.request = [@ EXCEPT !.timer = FALSE]]
    /\ ImportEvent([op |-> "importTimeout", waiting |-> RequestOutstanding])

\* The callback passed to chrome.runtime.sendMessage, called by the browser
\* at any time after the call has returned: with chrome.runtime.lastError
\* set, or with the answer.  Its throw statements run outside the try block
\* of handleImportCommand, which has returned.
SendMessageCallback(lastError, response) ==
    /\ RequestOutstanding
    /\ importFlow.request.transport = "runtime"
    /\ LET throws == lastError \/ ~response.success
       IN /\ importFlow' = [importFlow EXCEPT
                 !.browserSites = IF throws THEN @ ELSE response.sites,
                 !.request = [@ EXCEPT !.state = "settled"]]
          /\ ImportEvent([op |-> "sendMessageCallback", lastError |-> lastError,
                          response |-> response, threw |-> throws])

\* Time passes on the request.
ImportTick ==
    /\ RequestOutstanding \/ importFlow.request.timer
    /\ importFlow.request.elapsed < ImportTimeoutMs
    /\ importFlow' = [importFlow EXCEPT !.request.elapsed = @ + ImportTickMs]
    /\ ImportEvent([op |-> "importTick"])

ImportCommandChrome == \E throws \in BOOLEAN : HandleImportCommandChrome(throws)
WindowMessage == \E r \in Responses : HandleMessage(r)
RuntimeCallback ==
    \E lastError \in BOOLEAN, r \in Responses :
        (lastError => r = [success |-> FALSE, sites |-> <<>>, error |-> ""])
        /\ SendMessageCallback(lastError, r)

ImportNext ==
    \/ HandleImportCommandFirefox
    \/ ImportCommandChrome
    \/ WindowMessage
    \/ ImportTimeout
    \/ RuntimeCallback
    \/ ImportTick

\* The event loop runs a timer that is due, and time passes.
SpecImport ==
    Init /\ [][ImportNext]_vars /\ WF_vars(ImportTimeout) /\ WF_vars(ImportTick)

----------------------------------------------------------------------------
(* Two sessions of one user.  Session A is the store of the variables      *)
(* above; session B is a second browser tab running the same store, signed *)
(* in as the same user, whose entries subscription is open.  Both sessions *)
(* have finished their initial read of the (empty) collections.            *)

TabsUser == "u1"

TabsSubscriptions ==
    LET new == NewSubscriptions({}, TabsUser)
    IN [websites |-> [new.websites EXCEPT !.first = FALSE],
        groups |-> [new.groups EXCEPT !.first = FALSE]]

TabsInit ==
    /\ currentUser = TabsUser
    /\ websites = <<>>
    /\ groups = <<>>
    /\ isLoading = FALSE
    /\ unsubscribeWebsiteListener = TabsSubscriptions.websites.sid
    /\ unsubscribeGroupListener = TabsSubscriptions.groups.sid
    /\ listeners = {TabsSubscriptions.websites, TabsSubscriptions.groups}
    /\ loads = <<>>
    /\ pending = <<>>
    /\ remoteWebsites = [u \in Users |-> [i \in Ids |-> NoDoc]]
    /\ remoteGroups = [u \in Users |-> [i \in GroupIds |-> NoDoc]]
    /\ now = 1
    /\ lastEvent = NoEvent
    /\ batch = <<>>
    /\ subLog = <<SubEvent("onSnapshot", TabsSubscriptions.websites),
                  SubEvent("onSnapshot", TabsSubscriptions.groups)>>
    /\ calls = 0
    /\ okVisits = [i \in Ids |-> 0]
    /\ sessionB = NoSession
    /\ importFlow = NoImport

\* The entries subscription of session B delivers a snapshot: the same
\* callback, run on session B's local entries.
TabBDelivery ==
    LET changes == DocChanges(remoteWebsites[TabsUser], sessionB.seen, IdOrder)
    IN /\ changes # <<>>
       /\ sessionB' = [websites |-> OnWebsitesSnapshot(sessionB.websites, changes),
                       seen |-> remoteWebsites[TabsUser],
                       batch |-> changes]
       /\ lastEvent' = [op |-> "websitesSnapshotB", user |-> TabsUser]
       /\ UNCHANGED <<storeVars, listeners, loads, pending, remoteWebsites,
                      remoteGroups, now, batch, subLog, calls, okVisits, importFlow>>

\* Session A adds an entry.
TabAAddWebsite == Called /\ addWebsite([tags |-> <<"dev">>])

TabsNext ==
    \/ TabAAddWebsite
    \/ AddVisit
    \/ WriteOk
    \/ WriteError
    \/ EntriesDelivery
    \/ TabBDelivery

\* The database delivers every change to an open subscription.
SpecTabs == TabsInit /\ [][TabsNext]_vars /\ WF_vars(TabBDelivery)

----------------------------------------------------------------------------
(* Properties.                                                             *)


MutatingOps ==
    {"addWebsite", "addVisit", "removeWebsite", "editWebsite",
     "addGroup", "updateGroup", "deleteGroup", "toggleGroupExpansion"}

Last(list) == list[Len(list)]
Front(list) == SubSeq(list, 1, Len(list) - 1)

\* C1: addWebsite with a signed-in user appends exactly one entry, new to
\* the list, with visits = 0, the current user as owner and the tags of the
\* payload; when its write fails no entry with that identifier is left, and
\* when the failure follows the call directly the list is the one before the
\* call.
C1_AddStep ==
    (lastEvent'.op = "addWebsite" /\ currentUser # NULL) =>
        /\ Len(websites') = Len(websites) + 1
        /\ Front(websites') = websites
        /\ Last(websites').id \notin IdsOf(websites)
        /\ Last(websites').visits = 0
        /\ Last(websites').userId = currentUser
        /\ Last(websites').tags = lastEvent'.payload.tags
C1_FailStep ==
    (lastEvent'.op = "writeFails" /\ lastEvent'.of = "addWebsite") =>
        /\ lastEvent'.id \notin IdsOf(websites')
        /\ (lastEvent.op = "addWebsite" /\ lastEvent.id = lastEvent'.id) =>
               websites' = Front(websites)
C1_AddWebsiteOptimisticThenReverted == [][C1_AddStep /\ C1_FailStep]_vars

\* C1 witness: signed in with no remote data, the write of an addWebsite has
\* just failed and the local list is empty again.
C1_Witness ==
    /\ lastEvent.op = "writeFails"
    /\ lastEvent.of = "addWebsite"
    /\ currentUser # NULL
    /\ currentUser = lastEvent.user
    /\ \A i \in Ids : remoteWebsites[currentUser][i] = NoDoc
    /\ websites = <<>>

\* The addVisit writes in flight for an entry.
PendingVisits(id) ==
    Cardinality({i \in 1..Len(pending) : pending[i].op = "addVisit" /\ pending[i].id = id})

\* C2: the visit counter of an entry is raised by at most +1 per successful
\* addVisit call: a local counter never exceeds the successful calls plus
\* the calls still in flight, and a persisted counter never exceeds the
\* successful calls.  (Entries start at 0 visits.)
C2_VisitCounterCountsSuccessfulCalls ==
    /\ \A i \in 1..Len(websites) :
           websites[i].visits <= okVisits[websites[i].id] + PendingVisits(websites[i].id)
    /\ \A u \in Users, i \in Ids :
           remoteWebsites[u][i] # NoDoc => remoteWebsites[u][i].visits <= okVisits[i]

\* C3: right after removeWebsite(id) neither getRecentWebsites nor
\* getMostVisitedWebsites returns an entry with that identifier, whatever the
\* limit, the soft-delete write being still in flight.
C3_RemovedEntryNotInViews ==
    lastEvent.op = "removeWebsite" =>
        \A limit \in 0..DefaultLimit :
            /\ lastEvent.id \notin IdsOf(getRecentWebsites(limit))
            /\ lastEvent.id \notin IdsOf(getMostVisitedWebsites(limit))

\* C3 witness: an entry has just been removed, its soft-delete is in flight,
\* and the views still show another entry.
C3_Witness ==
    /\ lastEvent.op = "removeWebsite"
    /\ \E i \in 1..Len(pending) :
           pending[i].op = "removeWebsite" /\ pending[i].id = lastEvent.id
    /\ getRecentWebsites(DefaultLimit) # <<>>
    /\ getMostVisitedWebsites(DefaultLimit) # <<>>

\* C4: a mutating store operation called while no user is signed in changes
\* neither the store nor the writes in flight nor the database.
C4_SignedOutCallIsNoOp ==
    [][(lastEvent'.op \in MutatingOps /\ currentUser = NULL) =>
           UNCHANGED <<storeVars, listeners, loads, pending, remoteWebsites,
                       remoteGroups>>]_vars

\* C4 witness: toggleGroupExpansion has just been called with no user.
C4_Witness ==
    /\ lastEvent.op = "toggleGroupExpansion"
    /\ lastEvent.user = NULL
    /\ currentUser = NULL

\* C5: while no user is signed in the store holds no entries, no groups and
\* no change subscription.
C5_SignedOutHoldsNothing ==
    currentUser = NULL =>
        /\ websites = <<>>
        /\ groups = <<>>
        /\ listeners = {}
        /\ unsubscribeWebsiteListener = NULL
        /\ unsubscribeGroupListener = NULL

\* C6: every live change subscription is one of the signed-in user.
C6_SubscriptionsOfCurrentUser ==
    \A s \in listeners : s.user = currentUser

\* C7: when a subscription of a user is opened, every subscription opened
\* earlier for another user has been unsubscribed in between.
C7_PreviousUserTornDownFirst ==
    \A i, j \in 1..Len(subLog) :
        (/\ i < j
         /\ subLog[i].ev = "onSnapshot"
         /\ subLog[j].ev = "onSnapshot"
         /\ subLog[i].user # subLog[j].user)
        => \E k \in (i + 1)..(j - 1) :
               /\ subLog[k].ev = "unsubscribe"
               /\ subLog[k].sid = subLog[i].sid
               /\ subLog[k].user = subLog[i].user

\* C7 witness: subscriptions were opened for one user and later for another,
\* who is now signed in with both subscriptions live.
C7_Witness ==
    /\ \E i, j \in 1..Len(subLog) :
           /\ i < j
           /\ subLog[i].ev = "onSnapshot"
           /\ subLog[j].ev = "onSnapshot"
           /\ subLog[i].user # subLog[j].user
           /\ subLog[j].user = currentUser
    /\ {s.kind : s \in listeners} = {"websites", "groups"}

\* The optimistic change of an entry write in flight is present in a list.
OptimisticChangePresent(p, list) ==
    LET SameId(w) == w.id = p.id
        index == FindIndex(list, SameId)
    IN IF p.op = "addWebsite" THEN index # 0
       ELSE IF p.op = "removeWebsite" THEN index = 0
       ELSE /\ index # 0
            /\ \A f \in DOMAIN p.data \ {"lastVisit"} : list[index][f] = p.data[f]

\* C8: folding a change batch into local state keeps every optimistic change
\* of the signed-in user whose write is still in flight.
C8_DeliveryKeepsPendingEdits ==
    [][lastEvent'.op = "websitesSnapshot" =>
          \A i \in 1..Len(pending) :
              (/\ pending[i].coll = "websites"
               /\ pending[i].user = currentUser
               /\ OptimisticChangePresent(pending[i], websites))
              => OptimisticChangePresent(pending[i], websites')]_vars

\* The reconciliation as the specification words it, one record at a time.
\* "The local entry with that id" is the first one in the list.
HasId(list, id) == \E i \in 1..Len(list) : list[i].id = id
FirstWithId(list, id) == CHOOSE i \in 1..Len(list) :
    list[i].id = id /\ \A j \in 1..(i - 1) : list[j].id # id
RemovedById(list, id) ==
    IF HasId(list, id)
    THEN [i \in 1..(Len(list) - 1) |->
             IF i < FirstWithId(list, id) THEN list[i] ELSE list[i + 1]]
    ELSE list
OverwrittenOrAppended(list, entry) ==
    IF HasId(list, entry.id)
    THEN [i \in 1..Len(list) |-> IF i = FirstWithId(list, entry.id) THEN entry ELSE list[i]]
    ELSE list \o <<entry>>
RemoteVersion(doc) ==
    [id |-> doc.id, userId |-> doc.userId, visits |-> doc.visits, tags |-> doc.tags,
     deleted |-> doc.deleted, createdAt |-> newDate(doc.createdAt),
     lastVisit |-> IF doc.lastVisit = Undefined THEN Undefined
                   ELSE newDate(doc.lastVisit),
     deletedAt |-> IF doc.deletedAt = Undefined THEN Undefined
                   ELSE newDate(doc.deletedAt)]
RECURSIVE Reconciled(_, _)
Reconciled(list, records) ==
    IF records = <<>> THEN list
    ELSE LET r == Head(records)
             next == IF r.doc.deleted = "true" THEN RemovedById(list, r.doc.id)
                     ELSE IF r.type \in {"added", "modified"}
                     THEN OverwrittenOrAppended(list, RemoteVersion(r.doc))
                     ELSE RemovedById(list, r.doc.id)
         IN Reconciled(next, Tail(records))

Occurrences(list, x) == Cardinality({i \in 1..Len(list) : list[i] = x})
SameEntries(a, b) ==
    /\ Len(a) = Len(b)
    /\ \A x \in Range(a) \cup Range(b) : Occurrences(a, x) = Occurrences(b, x)
AscendingByCreation(list) ==
    \A i, j \in 1..Len(list) : i < j => list[i].createdAt.ms <= list[j].createdAt.ms

\* C9: the entries callback leaves exactly the entries obtained by processing
\* the records in delivered order (soft-deleted document: remove the local
\* entry; added or modified: overwrite it, append it when absent; removed:
\* remove it), in ascending order of creation time.
C9_CallbackIsTheReconciliation ==
    [][lastEvent'.op = "websitesSnapshot" =>
          /\ SameEntries(websites', Reconciled(websites, batch'))
          /\ AscendingByCreation(websites')]_vars

\* C9 witness: a batch of two records on different identifiers has been
\* folded in, leaving three entries, overwritten or appended ones (visits
\* = 1) next to untouched ones (visits = 0).
C9_Witness ==
    /\ lastEvent.op = "websitesSnapshot"
    /\ Len(batch) = 2
    /\ batch[1].type = "added"
    /\ batch[2].type = "modified"
    /\ batch[1].doc.id # batch[2].doc.id
    /\ Len(websites) = 3
    /\ \E i, j \in 1..Len(websites) :
           websites[i].visits = 0 /\ websites[j].visits = 1

\* The orders in which the records of a batch can be processed.
Orders(n) == {f \in [1..n -> 1..n] : \A i, j \in 1..n : i # j => f[i] # f[j]}
Reordered(records, f) == [i \in 1..Len(records) |-> records[f[i]]]
DisjointIds(records) ==
    \A i, j \in 1..Len(records) : i # j => records[i].doc.id # records[j].doc.id

\* C10: for a batch in which no two records touch the same identifier, every
\* processing order of the records leaves the same local list.
C10_OrderIndependentOnDisjointIds ==
    [][(lastEvent'.op = "websitesSnapshot" /\ DisjointIds(batch')) =>
          \A f \in Orders(Len(batch')) :
              OnWebsitesSnapshot(websites, Reordered(batch', f)) = websites']_vars

DistinctCreationTimes(records) ==
    \A i, j \in 1..Len(records) :
        i # j => records[i].doc.createdAt # records[j].doc.createdAt

\* C10, amended: for a batch in which no two records touch the same
\* identifier, every processing order leaves the same entries, and the same
\* list, in the same order, when no two records of the batch carry the same
\* creation time.
C10_OrderIndependentUpToTies ==
    [][(lastEvent'.op = "websitesSnapshot" /\ DisjointIds(batch')) =>
          \A f \in Orders(Len(batch')) :
              LET other == OnWebsitesSnapshot(websites, Reordered(batch', f))
              IN /\ SameEntries(other, websites')
                 /\ DistinctCreationTimes(batch') => other = websites']_vars

\* C10 witness: a batch of two records on different identifiers, delivered
\* the later-created one first, has been folded in and both were appended.
C10_Witness ==
    /\ lastEvent.op = "websitesSnapshot"
    /\ Len(batch) = 2
    /\ DisjointIds(batch)
    /\ DateParse(batch[1].doc.createdAt) > DateParse(batch[2].doc.createdAt)
    /\ \A i \in 1..2 : batch[i].doc.deleted # "true" /\ batch[i].type = "added"
    /\ Len(websites) = 2
    /\ \A i \in 1..2 : websites[i].visits = 1

----------------------------------------------------------------------------
\* C11: two sessions of one user.  When a recordVisit (addVisit) of session
\* A on entry i succeeds, changing the stored document, nothing else of A
\* being in flight, and session B's subscription has delivered i before,
\* then, unless A issues a further write first, session B's subscription
\* eventually delivers a 'modified' record for i, after which B's entry for i
\* carries the record's count (the record replaces the entry, nothing is
\* added on top); and when B folds the record in right after the success,
\* B's count is the count A holds.
EntryOf(list, id) == list[FirstWithId(list, id)]

C11_VisitSucceeded(i) ==
    /\ lastEvent.op = "writeSucceeds"
    /\ lastEvent.of = "addVisit"
    /\ lastEvent.id = i
    /\ sessionB.seen[i] # NoDoc
    /\ sessionB.seen[i] # remoteWebsites[TabsUser][i]
    /\ pending = <<>>

C11_FoldedInB(i) ==
    \E k \in 1..Len(sessionB.batch) :
        /\ sessionB.batch[k].type = "modified"
        /\ sessionB.batch[k].doc.id = i
        /\ HasId(sessionB.websites, i)
        /\ EntryOf(sessionB.websites, i).visits = sessionB.batch[k].doc.visits

C11_SameCountStep ==
    \A i \in Ids :
        ( /\ C11_VisitSucceeded(i)
          /\ HasId(websites, i)
          /\ EntryOf(websites, i).visits = lastEvent.write.data.visits
          /\ lastEvent'.op = "websitesSnapshotB" )
        => /\ C11_FoldedInB(i)'
           /\ EntryOf(sessionB.websites, i)'.visits = EntryOf(websites, i).visits
           /\ websites' = websites

----------------------------------------------------------------------------
\* C12: recordVisit (addVisit) and editEntry (editWebsite) take, when they
\* are called, the entry as it is before their optimistic change as their
\* snapshot; when their remote write fails, every local entry with the
\* identifier becomes that snapshot and every other local entry, and the
\* length and order of the list, stay as they were.
C12_SnapshotStep ==
    ( /\ lastEvent'.op \in {"addVisit", "editWebsite"}
      /\ Len(pending') = Len(pending) + 1 )
    => /\ HasId(websites, lastEvent'.id)
       /\ Last(pending').snap = EntryOf(websites, lastEvent'.id)
       /\ Last(pending').id = lastEvent'.id

C12_FailStep ==
    ( /\ lastEvent'.op = "writeFails"
      /\ lastEvent'.of \in {"addVisit", "editWebsite"} )
    => /\ Len(websites') = Len(websites)
       /\ \A j \in 1..Len(websites) :
             websites'[j] = IF websites[j].id = lastEvent'.id
                            THEN lastEvent'.write.snap
                            ELSE websites[j]

C12_FailureRestoresSnapshot == [][C12_SnapshotStep /\ C12_FailStep]_vars

\* A failed recordVisit has put back the entry without the visit, next to a
\* second entry.
C12_Witness ==
    /\ lastEvent.op = "writeFails"
    /\ lastEvent.of = "addVisit"
    /\ Len(websites) = 2
    /\ HasId(websites, lastEvent.id)
    /\ EntryOf(websites, lastEvent.id) = lastEvent.write.snap
    /\ EntryOf(websites, lastEvent.id).visits = 0
    /\ \E j \in 1..2 : websites[j].id # lastEvent.id

----------------------------------------------------------------------------
\* C13: removeEntry (removeWebsite) issues an update that sets the deleted
\* flag and the deletion timestamp and nothing else; a stored document is
\* never removed from its collection, and after the update succeeds it is
\* still there, flagged and stamped; when the update fails the removed entry
\* is back in the local list, next to the entries that were there, and the
\* list is in ascending order of creation time.
C13_IssueStep ==
    ( /\ lastEvent'.op = "removeWebsite"
      /\ Len(pending') = Len(pending) + 1 )
    => LET p == Last(pending')
       IN /\ p.kind = "updateDoc"
          /\ DOMAIN p.data = {"deleted", "deletedAt"}
          /\ p.data.deleted = "true"
          /\ p.data.deletedAt = IsoOf(now)
          /\ p.snap.id = lastEvent'.id

C13_StoreStep ==
    /\ \A u \in Users, i \in Ids :
          remoteWebsites[u][i] # NoDoc => remoteWebsites'[u][i] # NoDoc
    /\ ( /\ lastEvent'.op = "writeSucceeds"
         /\ lastEvent'.of = "removeWebsite" )
       => LET before == remoteWebsites[lastEvent'.user][lastEvent'.id]
              after == remoteWebsites'[lastEvent'.user][lastEvent'.id]
          IN /\ after.deleted = "true"
             /\ after.deletedAt.k = "iso"
             /\ \A f \in DOMAIN before \ {"deleted", "deletedAt"} : after[f] = before[f]

C13_FailStep ==
    ( /\ lastEvent'.op = "writeFails"
      /\ lastEvent'.of = "removeWebsite" )
    => /\ SameEntries(websites', Append(websites, lastEvent'.write.snap))
       /\ AscendingByCreation(websites')

C13_SoftDeleteAndReinsert == [][C13_IssueStep /\ C13_StoreStep /\ C13_FailStep]_vars

\* A failed removal has put the older of two entries back in front of the
\* younger one.
C13_Witness ==
    /\ lastEvent.op = "writeFails"
    /\ lastEvent.of = "removeWebsite"
    /\ Len(websites) = 2
    /\ websites[1] = lastEvent.write.snap
    /\ websites[1].createdAt.ms < websites[2].createdAt.ms

----------------------------------------------------------------------------
\* C14: addGroup, updateGroup, deleteGroup and toggleGroupExpansion apply
\* their change to the local group list in the call itself, and when their
\* remote write fails with nothing in between, the local group list holds
\* the groups it held before the call (their order set aside: groups of equal
\* creation time may change places).
GroupOps == {"addGroup", "updateGroup", "deleteGroup", "toggleGroupExpansion"}

C14_CallStep ==
    ( /\ lastEvent'.op \in GroupOps
      /\ Len(pending') = Len(pending) + 1 )
    => LET id == lastEvent'.id
       IN /\ lastEvent'.before = groups
          /\ lastEvent'.op = "addGroup" =>
                /\ Front(groups') = groups
                /\ Last(groups').id = id
                /\ id \notin IdsOf(groups)
          /\ lastEvent'.op = "deleteGroup" => ~HasId(groups', id)
          /\ lastEvent'.op = "toggleGroupExpansion" =>
                /\ Len(groups') = Len(groups)
                /\ Truthy(EntryOf(groups', id).isExpanded)
                       # Truthy(EntryOf(groups, id).isExpanded)
          /\ lastEvent'.op = "updateGroup" =>
                /\ Len(groups') = Len(groups)
                /\ EntryOf(groups', id).name = Last(pending').data.name

C14_FailStep ==
    ( /\ lastEvent'.op = "writeFails"
      /\ lastEvent'.of \in GroupOps
      /\ lastEvent.op = lastEvent'.of
      /\ lastEvent.id = lastEvent'.id
      /\ "before" \in DOMAIN lastEvent
      /\ Len(pending) = 1 )
    => SameEntries(groups', lastEvent.before)

C14_GroupOpsOptimisticThenReverted == [][C14_CallStep /\ C14_FailStep]_vars

----------------------------------------------------------------------------
\* C16 (as stated): every mutating operation called with a signed-in user
\* issues exactly one remote write.
C16_EveryCallWritesOnce ==
    [][(lastEvent'.op \in MutatingOps /\ lastEvent'.user # NULL) =>
           /\ Len(pending') = Len(pending) + 1
           /\ Front(pending') = pending]_vars

\* C16 (amended): a mutating operation called with a signed-in user on a
\* target it finds (always for addWebsite and addGroup, the user's own entry
\* or group with the identifier for the others) issues exactly one remote
\* write, and the local list carries its change in the same step, while the
\* write is in flight; called with an identifier the user holds no entry or
\* group for, it issues no write and changes nothing.
EntryOps == {"addVisit", "removeWebsite", "editWebsite"}

TargetFound(op, id) ==
    \/ op \in {"addWebsite", "addGroup"}
    \/ op \in EntryOps /\ \E j \in 1..Len(websites) :
          websites[j].id = id /\ websites[j].userId = currentUser
    \/ op \in GroupOps \ {"addGroup"} /\ \E j \in 1..Len(groups) :
          groups[j].id = id /\ groups[j].userId = currentUser

C16_WriteIssued ==
    LET p == Last(pending')
    IN /\ Len(pending') = Len(pending) + 1
       /\ Front(pending') = pending
       /\ p.op = lastEvent'.op
       /\ p.id = lastEvent'.id
       /\ p.user = currentUser
       /\ p.coll = IF p.op \in GroupOps THEN "groups" ELSE "websites"

C16_ChangeApplied ==
    LET op == lastEvent'.op
        id == lastEvent'.id
    IN /\ op = "addWebsite" =>
             Front(websites') = websites /\ Last(websites').id = id
       /\ op = "addVisit" =>
             EntryOf(websites', id).visits = EntryOf(websites, id).visits + 1
       /\ op = "removeWebsite" => ~HasId(websites', id)
       /\ op = "editWebsite" =>
             \A f \in DOMAIN lastEvent'.updates :
                 EntryOf(websites', id)[f] = lastEvent'.updates[f]
       /\ op \in GroupOps => C14_CallStep
       /\ op \in GroupOps => websites' = websites
       /\ op \notin GroupOps => groups' = groups
       /\ UNCHANGED <<currentUser, isLoading, remoteWebsites, remoteGroups>>

C16_CallWritesOnceWhenTargetFound ==
    [][(lastEvent'.op \in MutatingOps /\ lastEvent'.user # NULL) =>
           IF TargetFound(lastEvent'.op, lastEvent'.id)
           THEN C16_WriteIssued /\ C16_ChangeApplied
           ELSE UNCHANGED <<pending, storeVars, remoteWebsites, remoteGroups>>]_vars

\* A recordVisit is in flight: the local entry shows the visit, the stored
\* document does not yet.
C16_Witness ==
    /\ lastEvent.op = "addVisit"
    /\ Len(pending) = 1
    /\ pending[1].op = "addVisit"
    /\ pending[1].id = lastEvent.id
    /\ HasId(websites, lastEvent.id)
    /\ EntryOf(websites, lastEvent.id).visits = 1
    /\ remoteWebsites[currentUser][lastEvent.id] # NoDoc
    /\ remoteWebsites[currentUser][lastEvent.id].visits = 0

----------------------------------------------------------------------------
\* C17: no callback of a subscription and no catch block of an operation
\* ends with an exception.
C17_NothingThrows == "threw" \in DOMAIN lastEvent => ~lastEvent.threw

----------------------------------------------------------------------------
\* C15: whatever fields the partial update of editEntry (editWebsite)
\* carries, the remote write it issues contains neither the identifier, nor
\* the owning user, nor the creation time, nor the visit counter.
NeverClientWritable == {"id", "userId", "createdAt", "visits"}

C15_EditSendsNoProtectedField ==
    \A k \in 1..Len(pending) :
        pending[k].op = "editWebsite" =>
            DOMAIN pending[k].data \cap NeverClientWritable = {}

\* An update carrying every field, the four protected ones included, was
\* sent as the other four.
C15_Witness ==
    /\ lastEvent.op = "editWebsite"
    /\ DOMAIN lastEvent.updates = EditFields
    /\ Len(pending) = 1
    /\ pending[1].op = "editWebsite"
    /\ DOMAIN pending[1].data = {"tags", "lastVisit", "deletedAt", "deleted"}

----------------------------------------------------------------------------
\* C18: queryMostVisited (getMostVisitedWebsites) and queryRecent
\* (getRecentWebsites) change nothing in the store; they return entries of
\* the local list only, each owned by the current user and not soft-deleted,
\* at most `limit` of them, and none when no user is signed in.
RankedViews == {"getMostVisitedWebsites", "getRecentWebsites"}

OwnLive(list) ==
    SelectSeq(list, LAMBDA w : w.userId = currentUser /\ w.deleted # "true")

TakenFrom(r, list) == \A x \in Range(r) : Occurrences(r, x) <= Occurrences(list, x)

C18_Result ==
    lastEvent.op \in RankedViews =>
        LET r == lastEvent.result
        IN /\ TakenFrom(r, websites)
           /\ \A k \in 1..Len(r) : r[k].userId = currentUser /\ r[k].deleted # "true"
           /\ Len(r) <= lastEvent.limit
           /\ currentUser = NULL => r = <<>>

C18_ViewsArePureAndFiltered ==
    /\ []C18_Result
    /\ [][lastEvent'.op \in RankedViews =>
             UNCHANGED <<storeVars, listeners, loads, pending, remoteWebsites,
                         remoteGroups>>]_vars

\* A list of three with an entry of another user and a soft-deleted entry:
\* the most-visited view with limit 1 returns one entry, two being eligible.
C18_Witness ==
    /\ lastEvent.op = "getMostVisitedWebsites"
    /\ lastEvent.limit = 1
    /\ Len(lastEvent.result) = 1
    /\ Len(websites) = 3
    /\ Len(OwnLive(websites)) = 2
    /\ \E k \in 1..3 : websites[k].userId # currentUser
    /\ \E k \in 1..3 : websites[k].deleted = "true"

----------------------------------------------------------------------------
\* C19: the result of queryMostVisited is in descending order of visit count
\* and is a top-`limit` selection of the eligible entries: it has `limit`
\* entries, or all of them when there are fewer, and no entry left out has
\* more visits than one returned; likewise queryRecent with the last-visit
\* time, or the creation time when there is none.
LastVisitOrCreation(w) ==
    IF w.lastVisit = Undefined THEN w.createdAt.ms ELSE w.lastVisit.ms

LeftOut(r, list) == {x \in Range(list) : Occurrences(r, x) < Occurrences(list, x)}

Min(a, b) == IF a < b THEN a ELSE b

C19_TopOf(r, limit, eligible) ==
    /\ TakenFrom(r, eligible)
    /\ Len(r) = Min(limit, Len(eligible))

C19_SortedViews ==
    /\ lastEvent.op = "getMostVisitedWebsites" =>
          LET r == lastEvent.result
          IN /\ C19_TopOf(r, lastEvent.limit, OwnLive(websites))
             /\ \A i, j \in 1..Len(r) : i < j => r[i].visits >= r[j].visits
             /\ \A x \in LeftOut(r, OwnLive(websites)), k \in 1..Len(r) :
                   x.visits <= r[k].visits
    /\ lastEvent.op = "getRecentWebsites" =>
          LET r == lastEvent.result
          IN /\ C19_TopOf(r, lastEvent.limit, OwnLive(websites))
             /\ \A i, j \in 1..Len(r) :
                   i < j => LastVisitOrCreation(r[i]) >= LastVisitOrCreation(r[j])
             /\ \A x \in LeftOut(r, OwnLive(websites)), k \in 1..Len(r) :
                   LastVisitOrCreation(x) <= LastVisitOrCreation(r[k])

\* Three eligible entries listed in ascending order of visits: the
\* most-visited view with limit 2 returns the last two, most visited first.
C19_Witness ==
    /\ lastEvent.op = "getMostVisitedWebsites"
    /\ lastEvent.limit = 2
    /\ Len(websites) = 3
    /\ Len(OwnLive(websites)) = 3
    /\ websites[1].visits < websites[2].visits
    /\ websites[2].visits < websites[3].visits
    /\ lastEvent.result = <<websites[3], websites[2]>>

----------------------------------------------------------------------------
\* C20: listDistinctTags (getTags) reports each tag once, and only tags
\* carried by an entry of the current user that is not soft-deleted (all of
\* them); queryByTag (getWebsitesByTag) returns the entries of the current
\* user that carry the tag and are not soft-deleted, and no other.
C20_DeletedEntriesHidden ==
    /\ lastEvent.op = "getTags" =>
          LET r == lastEvent.result
          IN /\ \A i, j \in 1..Len(r) : i # j => r[i] # r[j]
             /\ \A k \in 1..Len(r) :
                   \E w \in Range(OwnLive(websites)) : r[k] \in Range(w.tags)
             /\ \A w \in Range(OwnLive(websites)) : Range(w.tags) \subseteq Range(r)
    /\ lastEvent.op = "getWebsitesByTag" =>
          LET r == lastEvent.result
          IN /\ TakenFrom(r, websites)
             /\ \A k \in 1..Len(r) :
                   /\ r[k].deleted # "true"
                   /\ r[k].userId = currentUser
                   /\ lastEvent.tag \in Range(r[k].tags)
             /\ \A w \in Range(OwnLive(websites)) :
                   lastEvent.tag \in Range(w.tags) => w \in Range(r)

\* The only entry tagged "news" is soft-deleted: the tag is not reported,
\* "dev", carried by two live entries, is reported once.
C20_Witness ==
    /\ lastEvent.op = "getTags"
    /\ lastEvent.result = <<"dev">>
    /\ Len(websites) = 3
    /\ Len(OwnLive(websites)) = 2
    /\ \E k \in 1..3 :
          /\ websites[k].userId = currentUser
          /\ websites[k].deleted = "true"
          /\ "news" \in Range(websites[k].tags)

----------------------------------------------------------------------------
(* C21: a subscription error is only logged.  The step in which an error   *)
(* callback runs leaves the local entries, the local groups, the current   *)
(* user, the loading flag and the stored unsubscribe handles as they were, *)
(* issues no read and no write and opens no subscription; and no later     *)
(* step resubscribes on its own: a subscription is only ever opened by the *)
(* step that resolves the initial read of a setCurrentUser call.           *)

SubscriptionErrors == {"websiteListenerError", "groupListenerError"}

C21_ErrorStep == lastEvent'.op \in SubscriptionErrors

C21_Opens ==
    \E k \in 1..Len(subLog') :
        /\ subLog'[k].ev = "onSnapshot"
        /\ k > Len(subLog)

C21_SubscriptionErrorOnlyLogged ==
    [][ /\ C21_ErrorStep =>
            /\ UNCHANGED <<storeVars, loads, pending, remoteWebsites,
                           remoteGroups, subLog>>
            /\ \E s \in listeners :
                   /\ ~s.failed
                   /\ listeners' = (listeners \ {s}) \cup {[s EXCEPT !.failed = TRUE]}
        /\ C21_Opens =>
            /\ lastEvent'.op = "loadResolves"
            /\ lastEvent'.setup
        /\ \A s \in listeners :
               s.failed => \A t \in listeners' : t.sid = s.sid => t.failed \/ t.first
      ]_vars

\* The entries subscription of a signed-in user with a local entry has
\* failed, and the entry is still there.
C21_Witness ==
    /\ lastEvent.op = "websiteListenerError"
    /\ currentUser = lastEvent.user
    /\ websites # <<>>
    /\ \E s \in listeners : s.failed /\ s.kind = "websites" /\ s.user = currentUser

----------------------------------------------------------------------------
(* C22: when the initial read of a sign-in completes successfully, the     *)
(* local entries and groups are exactly the user's remote entries and      *)
(* groups whose soft-delete flag is absent or false.                       *)

\* The documents of a collection whose flag is not set.
FlagNotSet(coll) == {i \in DOMAIN coll : coll[i] # NoDoc /\ coll[i].deleted # "true"}

C22_ReadStep ==
    /\ lastEvent'.op = "loadResolves"
    /\ lastEvent'.ok
    /\ lastEvent'.setup

C22_InitialReadIsLiveRemoteSet ==
    [][C22_ReadStep =>
          /\ IdsOf(websites') = FlagNotSet(remoteWebsites[lastEvent'.user])
          /\ IdsOf(groups') = FlagNotSet(remoteGroups[lastEvent'.user])]_vars

----------------------------------------------------------------------------
(* C23: every entry and every group in local state carries createdAt as a  *)
(* native date and lastVisit and deletedAt as a native date or nothing,    *)
(* never as an ISO-8601 string: the entries and groups put there by the    *)
(* initial read or by a subscription delivery have been converted.         *)

NativeDate(t) == t.k = "Date"
NativeDateOrAbsent(t) == t.k \in {"Date", "undefined"}

C23_LocalTimestampsAreDates ==
    /\ \A i \in 1..Len(websites) :
           /\ NativeDate(websites[i].createdAt)
           /\ NativeDateOrAbsent(websites[i].lastVisit)
           /\ NativeDateOrAbsent(websites[i].deletedAt)
    /\ \A i \in 1..Len(groups) :
           /\ NativeDate(groups[i].createdAt)
           /\ NativeDateOrAbsent(groups[i].deletedAt)

----------------------------------------------------------------------------
(* C24: round trip.  Writing the timestamps of an entry with               *)
(* toFirestoreWebsite and reading them back with fromFirestoreWebsite      *)
(* gives the original timestamps to the millisecond; an absent lastVisit   *)
(* or deletedAt stays absent.                                              *)

C24_RoundTrip ==
    lastEvent.op = "fromFirestoreWebsite" =>
        /\ lastEvent.back.createdAt = lastEvent.entry.createdAt
        /\ lastEvent.back.lastVisit = lastEvent.entry.lastVisit
        /\ lastEvent.back.deletedAt = lastEvent.entry.deletedAt
        /\ lastEvent.wire.createdAt.k = "iso"
        /\ lastEvent.entry.lastVisit # Undefined => lastEvent.wire.lastVisit.k = "iso"
        /\ lastEvent.entry.deletedAt # Undefined => lastEvent.wire.deletedAt.k = "iso"

\* An entry created one millisecond after a whole second, never visited,
\* deleted one millisecond before a whole second, has made the round trip.
C24_Witness ==
    /\ lastEvent.op = "fromFirestoreWebsite"
    /\ lastEvent.entry.createdAt = DateOf(1001)
    /\ lastEvent.entry.lastVisit = Undefined
    /\ lastEvent.entry.deletedAt = DateOf(999)
    /\ lastEvent.wire.createdAt = [k |-> "iso", s |-> 1, f |-> 1]
    /\ lastEvent.back.lastVisit = Undefined

----------------------------------------------------------------------------
(* C25: the remote write of addVisit is an update of the entry's document  *)
(* that carries exactly two fields: visits, equal to the entry's local     *)
(* count before the call plus one, and lastVisit, the time of the call as  *)
(* an ISO string.                                                          *)

C25_VisitStep ==
    /\ lastEvent'.op = "addVisit"
    /\ pending' # pending

C25_VisitWritesTwoFields ==
    [][C25_VisitStep =>
          /\ Front(pending') = pending
          /\ LET p == Last(pending')
                 prior == EntryOf(websites, lastEvent'.id)
             IN /\ p.kind = "updateDoc"
                /\ p.coll = "websites"
                /\ p.user = currentUser
                /\ p.id = lastEvent'.id
                /\ DOMAIN p.data = {"visits", "lastVisit"}
                /\ p.data.visits = prior.visits + 1
                /\ p.data.lastVisit = IsoOf(now)]_vars

\* The second visit of an entry has just been recorded.
C25_Witness ==
    /\ lastEvent.op = "addVisit"
    /\ pending # <<>>
    /\ Last(pending).op = "addVisit"
    /\ Last(pending).data.visits = 2
    /\ Last(pending).snap.visits = 1

----------------------------------------------------------------------------
(* C26: an import request that has had no answer when the window of        *)
(* ImportTimeoutMs has passed is treated as a failure, whichever transport *)
(* carried it: the import flow ends with an error set and loading cleared. *)

C26_Unanswered ==
    /\ RequestOutstanding
    /\ importFlow.request.elapsed >= ImportTimeoutMs

C26_Failed ==
    /\ importFlow.importError # NULL
    /\ ~importFlow.importLoading

C26_UnansweredRequestFails == C26_Unanswered ~> C26_Failed

\* The same for the requests posted as window messages only.
C26_UnansweredWindowMessageFails ==
    (C26_Unanswered /\ importFlow.request.transport = "postMessage") ~>
        (C26_Failed /\ importFlow.importError = TimedOutMessage)

----------------------------------------------------------------------------
(* C27: when the import source fails (the extension is missing, it answers *)
(* { success: false, error }, or the request times out) the failure is     *)
(* shown as an error string, the flow is over (loading cleared, no site    *)
(* list taken over) and nothing is added to the store.                     *)

C27_SourceFailed(event) ==
    \/ event.op = "handleImportCommand" /\ event.transport = "runtime" /\ event.threw
    \/ event.op = "handleMessage" /\ ~event.response.success
    \/ event.op = "importTimeout" /\ event.waiting
    \/ event.op = "sendMessageCallback" /\ (event.lastError \/ ~event.response.success)

C27_ImportFailureSurfaced ==
    [][C27_SourceFailed(lastEvent') =>
          /\ importFlow'.importError # NULL
          /\ ~importFlow'.importLoading
          /\ importFlow'.browserSites = importFlow.browserSites
          /\ UNCHANGED <<websites, groups, pending, remoteWebsites>>]_vars

----------------------------------------------------------------------------
(* C28: groups and entries are independent.  A group operation (addGroup,  *)
(* updateGroup, deleteGroup, toggleGroupExpansion) leaves the local entry  *)
(* list, tags included, as it was and writes only to the groups            *)
(* collection; an entry operation leaves the local group list as it was    *)
(* and writes only to the entries collection.  This holds for the call and *)
(* for the step in which its write succeeds or fails.                      *)

C28_EntryOps == EntryOps \cup {"addWebsite"}

C28_Collection(op) == IF op \in GroupOps THEN "groups" ELSE "websites"

C28_CallStep ==
    LET op == lastEvent'.op
    IN /\ op \in GroupOps => websites' = websites
       /\ op \in C28_EntryOps => groups' = groups
       /\ UNCHANGED <<remoteWebsites, remoteGroups>>
       /\ pending' # pending =>
              /\ Front(pending') = pending
              /\ Last(pending').op = op
              /\ Last(pending').coll = C28_Collection(op)

C28_ResolveStep ==
    LET op == lastEvent'.of
    IN /\ lastEvent'.write.coll = C28_Collection(op)
       /\ op \in GroupOps => UNCHANGED <<websites, remoteWebsites>>
       /\ op \in C28_EntryOps => UNCHANGED <<groups, remoteGroups>>

C28_GroupsAndEntriesIndependent ==
    [][ /\ lastEvent'.op \in GroupOps \cup C28_EntryOps => C28_CallStep
        /\ lastEvent'.op \in {"writeSucceeds", "writeFails"} => C28_ResolveStep
      ]_vars

\* The write of an updateGroup has succeeded while the local list holds a
\* tagged entry.
C28_Witness ==
    /\ lastEvent.op = "writeSucceeds"
    /\ lastEvent.of = "updateGroup"
    /\ websites # <<>>
    /\ websites[1].tags # <<>>
    /\ remoteGroups[currentUser][lastEvent.id] # NoDoc
    /\ remoteGroups[currentUser][lastEvent.id].name = "b"

----------------------------------------------------------------------------
(* C29: after editWebsite(id, {tags: []}) on an entry of the current user, *)
(* getTags returns exactly the tags carried by the other entries of the    *)
(* user that are not deleted: a tag only the edited entry carried is gone, *)
(* every tag another such entry carries is still there.                    *)

C29_EditStep ==
    /\ lastEvent'.op = "editWebsite"
    /\ lastEvent'.updates = [tags |-> <<>>]
    /\ pending' # pending

C29_TagsOfOthers(list, user, edited) ==
    UNION {Range(list[j].tags) :
               j \in {k \in 1..Len(list) : /\ k # edited
                                           /\ list[k].userId = user
                                           /\ list[k].deleted # "true"}}

C29_ClearedTagsLeaveTheTagList ==
    [][C29_EditStep =>
          /\ EntryOf(websites', lastEvent'.id).tags = <<>>
          /\ Range(getTags') =
                 C29_TagsOfOthers(websites', currentUser,
                                  FirstWithId(websites, lastEvent'.id))
          /\ Range(getTags') =
                 C29_TagsOfOthers(websites, currentUser,
                                  FirstWithId(websites, lastEvent'.id))]_vars

\* The tags of the entry that alone carried "dev" have been cleared; "news",
\* carried by the other entry, is the one tag left.
C29_Witness ==
    /\ lastEvent.op = "editWebsite"
    /\ pending # <<>>
    /\ Last(pending).op = "editWebsite"
    /\ Last(pending).snap.tags = <<"dev">>
    /\ Len(websites) = 2
    /\ getTags = <<"news">>

----------------------------------------------------------------------------
(* C30: identifiers are unique in local state: in every reachable state no *)
(* two entries of the local entry list have the same id and no two groups  *)
(* of the local group list have the same id.                               *)

UniqueIds(list) == \A i, j \in 1..Len(list) : list[i].id = list[j].id => i = j

C30_IdentifiersUnique == UniqueIds(websites) /\ UniqueIds(groups)

----------------------------------------------------------------------------
(* C31: convergence.  In a session that has stayed signed in as one user,  *)
(* once no remote write and no read is in flight and the entries           *)
(* subscription has delivered everything, the local entry list is, field   *)
(* by field, the set of the user's remote entries that are not             *)
(* soft-deleted.                                                           *)

\* One sign-in has opened its two subscriptions, nothing was closed, and
\* the user is still signed in.
C31_OneSession ==
    /\ currentUser # NULL
    /\ Len(subLog) = 2
    /\ \A k \in 1..Len(subLog) : subLog[k].user = currentUser

C31_Quiescent ==
    /\ C31_OneSession
    /\ pending = <<>>
    /\ loads = <<>>
    /\ \E s \in listeners :
           /\ s.kind = "websites"
           /\ s.user = currentUser
           /\ ~s.failed
           /\ ~s.first
           /\ s.seen = remoteWebsites[currentUser]

C31_RemoteLive ==
    {fromFirestoreWebsite(remoteWebsites[currentUser][i]) :
         i \in {j \in Ids : /\ remoteWebsites[currentUser][j] # NoDoc
                            /\ remoteWebsites[currentUser][j].deleted # "true"}}

C31_Convergence ==
    C31_Quiescent =>
        /\ Range(websites) = C31_RemoteLive
        /\ Len(websites) = Cardinality(C31_RemoteLive)

----------------------------------------------------------------------------
(* C32: every entry and every group held in local state is owned by the    *)
(* current user, in every reachable state, sign-out and user switches      *)
(* with a write or a read in flight included.                              *)

C32_LocalStateOwnedByCurrentUser ==
    /\ \A i \in 1..Len(websites) : websites[i].userId = currentUser
    /\ \A i \in 1..Len(groups) : groups[i].userId = currentUser

----------------------------------------------------------------------------
(* C33: when every write of the addVisit calls made on an entry has        *)
(* resolved, the visit counter of the entry's remote document equals its   *)
(* initial value, 0, plus the number of those calls whose write succeeded, *)
(* overlapping calls included.                                             *)

C33_AllVisitsResolved(id) ==
    \A k \in 1..Len(pending) : ~(pending[k].op = "addVisit" /\ pending[k].id = id)

C33_RemoteCounterIsSuccessCount ==
    \A u \in Users, i \in Ids :
        (remoteWebsites[u][i] # NoDoc /\ C33_AllVisitsResolved(i)) =>
            remoteWebsites[u][i].visits = okVisits[i]

----------------------------------------------------------------------------
(* C34: a rollback reverts only the change of the operation that failed.   *)
(* When the write of addVisit or editWebsite fails, the fields of the      *)
(* local entries that the operation did not set (for addVisit everything   *)
(* but visits and lastVisit, for editWebsite everything but the fields of  *)
(* its update) are after the rollback what they were before it, so what    *)
(* other operations and deliveries changed in the meantime is kept.        *)

C34_OwnFields(p) ==
    IF p.op = "addVisit" THEN {"visits", "lastVisit"} ELSE DOMAIN p.data

C34_FailStep ==
    /\ lastEvent'.op = "writeFails"
    /\ lastEvent'.of \in {"addVisit", "editWebsite"}

C34_RollbackRevertsOwnChangeOnly ==
    [][C34_FailStep =>
          /\ Len(websites') = Len(websites)
          /\ \A k \in 1..Len(websites) :
                 \A f \in (DOMAIN websites[k]) \ C34_OwnFields(lastEvent'.write) :
                     websites'[k][f] = websites[k][f]]_vars

----------------------------------------------------------------------------
(* C35: at any time at most one entries subscription and at most one       *)
(* groups subscription are open, and every open subscription is the one    *)
(* whose unsubscribe handle the store holds, whatever the order in which   *)
(* setCurrentUser calls and the setupFirestoreListeners calls that follow  *)
(* their reads interleave.                                                 *)

C35_Handle(kind) ==
    IF kind = "websites" THEN unsubscribeWebsiteListener ELSE unsubscribeGroupListener

C35_OneSubscriptionPerKindHeldByStore ==
    /\ \A s, t \in listeners : s.kind = t.kind => s = t
    /\ \A s \in listeners : s.sid = C35_Handle(s.kind)

\* Two sign-ins overlapped: the read of the first resolved and opened its
\* subscriptions, then the read of the second closed them and opened its
\* own.
C35_Witness ==
    /\ lastEvent.op = "loadResolves"
    /\ lastEvent.setup
    /\ Len(subLog) = 6
    /\ subLog[1].user # subLog[6].user
    /\ subLog[3].ev = "unsubscribe"
    /\ Cardinality(listeners) = 2

----------------------------------------------------------------------------
(* C36: for every sign-in, its subscriptions are opened only after its     *)
(* initial read has resolved, and isLoading is true from the start of the  *)
(* sign-in until that read resolves and false once the subscriptions are   *)
(* open.  As steps: a sign-in sets isLoading and opens nothing; the        *)
(* subscriptions are opened by the step that resolves the read of a        *)
(* sign-in, for the user of that read, and isLoading is false after it;    *)
(* and isLoading falls only at a sign-out or when the read of the sign-in  *)
(* of the current user resolves.                                           *)

C36_Opened ==
    {subLog'[k] : k \in {j \in 1..Len(subLog') : /\ j > Len(subLog)
                                                 /\ subLog'[j].ev = "onSnapshot"}}

C36_SignInStep ==
    (lastEvent'.op = "setCurrentUser" /\ lastEvent'.user # NULL) =>
        /\ isLoading'
        /\ C36_Opened = {}

C36_OpenStep ==
    C36_Opened # {} =>
        /\ lastEvent'.op = "loadResolves"
        /\ lastEvent'.setup
        /\ \A e \in C36_Opened : e.user = lastEvent'.user
        /\ ~isLoading'

C36_LoadingFalls ==
    (isLoading /\ ~isLoading') =>
        \/ lastEvent'.op = "setCurrentUser" /\ lastEvent'.user = NULL
        \/ /\ lastEvent'.op = "loadResolves"
           /\ lastEvent'.setup
           /\ lastEvent'.user = currentUser

C36_SubscriptionsAfterReadWhileLoading ==
    [][C36_SignInStep /\ C36_OpenStep /\ C36_LoadingFalls]_vars

----------------------------------------------------------------------------
(* C37: a failed initial read is absorbed.  In the step in which the read  *)
(* of a sign-in fails, the local entry and group lists become empty,       *)
(* isLoading becomes false, and the entries subscription and the groups    *)
(* subscription of the user of the sign-in are opened and their handles    *)
(* stored.                                                                 *)

C37_ReadFails ==
    /\ lastEvent'.op = "loadResolves"
    /\ ~lastEvent'.ok
    /\ lastEvent'.setup

C37_OpenedFor(user, kind) ==
    \E k \in 1..Len(subLog') :
        /\ k > Len(subLog)
        /\ subLog'[k] = [ev |-> "onSnapshot", sid |-> C35_Handle(kind)', kind |-> kind,
                         user |-> user]
        /\ \E s \in listeners' :
               /\ s.sid = subLog'[k].sid
               /\ s.kind = kind
               /\ s.user = user
               /\ ~s.failed

C37_FailedReadAbsorbed ==
    [][C37_ReadFails =>
          /\ websites' = <<>>
          /\ groups' = <<>>
          /\ ~isLoading'
          /\ currentUser' = currentUser
          /\ C37_OpenedFor(lastEvent'.user, "websites")
          /\ C37_OpenedFor(lastEvent'.user, "groups")]_vars

\* The read of the signed-in user has failed while an entry added in the
\* meantime was in the list: the list is empty and both subscriptions are
\* open.
C37_Witness ==
    /\ lastEvent.op = "loadResolves"
    /\ ~lastEvent.ok
    /\ lastEvent.setup
    /\ lastEvent.user = currentUser
    /\ pending # <<>>
    /\ pending[1].op = "addWebsite"
    /\ websites = <<>>
    /\ {s.kind : s \in listeners} = {"websites", "groups"}

----------------------------------------------------------------------------
(* C38: addVisit, removeWebsite, editWebsite, updateGroup, deleteGroup and *)
(* toggleGroupExpansion, called by a signed-in user with an identifier     *)
(* that no item of the local list has, or that only items of another       *)
(* owner have, leave the local state as it was and issue no remote write.  *)

C38_Ops ==
    {"addVisit", "removeWebsite", "editWebsite",
     "updateGroup", "deleteGroup", "toggleGroupExpansion"}

C38_List(op) == IF op \in GroupOps THEN groups ELSE websites

C38_NoOwnItem(op, id) ==
    \A k \in 1..Len(C38_List(op)) :
        C38_List(op)[k].id = id => C38_List(op)[k].userId # currentUser

C38_MissCall ==
    /\ lastEvent'.op \in C38_Ops
    /\ currentUser # NULL
    /\ C38_NoOwnItem(lastEvent'.op, lastEvent'.id)

C38_MissIsNoOp ==
    [][C38_MissCall =>
          UNCHANGED <<storeVars, pending, remoteWebsites, remoteGroups, listeners,
                      loads, subLog>>]_vars

\* editWebsite has been called by a signed-in user with the identifier of an
\* entry of the list that another user owns.
C38_Witness ==
    /\ lastEvent.op = "editWebsite"
    /\ currentUser # NULL
    /\ \E k \in 1..Len(websites) :
           /\ websites[k].id = lastEvent.id
           /\ websites[k].userId # currentUser
           /\ websites[k].tags # <<>>
    /\ pending = <<>>

\* deleteGroup has been called with an identifier no group of the list has,
\* the list holding another group.
C38_WitnessUnknown ==
    /\ lastEvent.op = "deleteGroup"
    /\ currentUser # NULL
    /\ groups # <<>>
    /\ \A k \in 1..Len(groups) : groups[k].id # lastEvent.id

====
